---- MODULE Spec2Model ----
(***************************************************************************)
(* BlockMate Snippets: the snippet repository (SnippetStorage), its        *)
(* per-operation rate limiter, and the PIN gate of SnippetManager.         *)
(*                                                                         *)
(*   Spec      the repository: mutating calls as interleavable I/O steps,  *)
(*             crashes and re-initialization                               *)
(*   SpecRate  the rate limiter under a moving clock                       *)
(*   SpecOverlap  the repository with two mutating calls in flight         *)
(*   SpecGate  the Manager: PIN gate, session, and its repository calls    *)
(*   SpecPin   the access check with the session, the sweep and teardown   *)
(*   SpecCheck one access check after another, with every dialog answer    *)
(*   SpecAdmit the paths that admit or change the fields of a record       *)
(*   SpecImport  creations and imports of the repository                   *)
(*   SpecFields  every partial update of a record, under a moving clock    *)
(*   SpecLoad  initialize() on every kind of snapshot and backup file      *)
(*   SpecTrip  records created through the Manager, exported and imported  *)
(*   SpecCreate  both creations with every content selected or dropped     *)
(*   SpecSearch  searches with every term and filter over stored records   *)
(*   SpecPrune  repository calls of several operations while windows pass  *)
(*   SpecTimers the calls that start and stop the sweep timer              *)
(*   SpecKeys   mutating repository calls with updates that name the id    *)
(*   SpecNearLimit  mutating calls on a repository one call short of the   *)
(*             limit of one of its operations                              *)
(***************************************************************************)
EXTENDS Integers, FiniteSets, Sequences, TLC

VARIABLES
  \* ---- SnippetStorage
  snippets,        \* this.snippets: Map<string, Snippet>, as a function id -> record
  primary,         \* snippets.json on disk
  backup,          \* snippets.backup.json on disk
  rateLimitMap,    \* this.rateLimitMap: key <<operation, window index>> -> entry
  now,             \* Date.now(), in milliseconds
  \* ---- calls in flight (position of each asynchronous call)
  phase,           \* "down": no process / object constructed, "up": initialized
  pc,              \* caller -> "idle" | "copy" | "copying" | "write" | "writing"
  buf,             \* caller -> the data handed to writeFile
  \* ---- history (not program state)
  inflight,        \* caller -> record set before / after the call's own change
  crashInfo,       \* what was in flight when the process last crashed
  lastOp,          \* the call that returned last and how
  nCalls,          \* repository calls started
  nSucc,           \* mutating calls completed successfully
  wLast,           \* the snapshot written by the last successful mutation
  wPrev,           \* the snapshot written by the one before it
  clean,           \* no crash, I/O failure or overlapping call so far
  rateHist,        \* per operation: the calls made in its current window
  \* ---- PinProtectionService
  pinEnabled,      \* state.enabled
  storedPin,       \* the PIN on record
  storedCode,      \* the emergency code on record
  failedAttempts,  \* consecutive failed PIN attempts
  lockedUntil,     \* end of the lockout, 0 when there is none
  \* ---- SnippetManager
  isPinVerified,        \* this.isPinVerified
  pinVerificationTime,  \* this.pinVerificationTime
  pinSessionTimer,      \* this.pinSessionTimer: 0 (undefined) or a timer handle
  timers,               \* live interval timers: handle -> time it is next due
  \* ---- history of the Manager (not program state)
  gate             \* the last Manager call: what the gate said, what the call did

pinVars == <<pinEnabled, storedPin, storedCode, failedAttempts, lockedUntil>>
sessionVars == <<isPinVerified, pinVerificationTime>>
timerVars == <<pinSessionTimer, timers>>
otherVars == <<rateHist, pinVars, sessionVars, timerVars, gate>>

storeVars == <<snippets, primary, backup>>
callVars  == <<phase, pc, buf>>
histVars  == <<inflight, crashInfo, lastOp, nCalls, nSucc, wLast, wPrev, clean>>
vars == <<snippets, primary, backup, rateLimitMap, now, otherVars, phase, pc, buf,
          inflight, crashInfo, lastOp, nCalls, nSucc, wLast, wPrev, clean>>

----------------------------------------------------------------------------
\* Bounds of the model

MaxId     == 3      \* ids are drawn from 1..MaxId
MaxCalls  == 3      \* repository calls per behaviour
MaxImport == 2      \* elements in an import file

MaxBurst  == 102    \* calls to getAllSnippets within one window
MaxQuiet  == 1      \* calls to any other read operation within one window
MaxTicks  == 1      \* steps of the clock per behaviour

Ids     == 1..MaxId
Callers == {1, 2}   \* the calls that may be in flight together
RateOps == {"getAllSnippets", "getStats"}

MaxOps       == 1   \* Manager calls that reach the repository, per behaviour
MaxGateTicks == 1   \* steps of the clock per behaviour of the Manager
MaxTimers    == 2   \* interval timer handles

\* A text typed into an input box is a sequence of characters; a cancelled or
\* empty box yields the empty text.
NoInput == <<>>

Digits == {"0", "1", "2", "3", "4", "5", "6", "7", "8", "9"}

PinA     == <<"1", "2", "3", "4">>
PinB     == <<"4", "3", "2", "1">>
PinShort == <<"1", "2", "3">>
PinAlpha == <<"1", "2", "3", "a">>

\* Emergency codes; the empty text is a cancelled box.
CodeA == <<"E", "1">>
CodeB == <<"E", "2">>
Codes == {CodeA, CodeB}

\* What the user does in the dialogs of one checkPinVerification: the PIN typed,
\* the button pressed on "Invalid PIN", the emergency code and new PIN typed.
NoDialog == [pin |-> NoInput, forgot |-> FALSE, code |-> NoInput, newPin |-> NoInput]

PromptInputs == {[NoDialog EXCEPT !.pin = p] : p \in {NoInput, PinA, PinB}}

ForgotInputs ==
  {[pin |-> p, forgot |-> TRUE, code |-> c, newPin |-> n] :
     p \in {PinA, PinB}, c \in Codes \cup {NoInput},
     n \in {NoInput, PinB, PinShort, PinAlpha}}

\* Answers that differ only in a box that is never shown are one answer.
GateInputs ==
  PromptInputs \cup {in \in ForgotInputs : in.code = NoInput => in.newPin = NoInput}

\* The last Manager call: its name and time; PIN protection, lockout and
\* session as they were when it started; whether it ran checkPinVerification,
\* what that returned and whether it prompted; the records handed out and
\* whether records or files changed; the end of the last lockout that began;
\* how far handleForgotPin went, if it ran; whether dispose() has returned
\* with no initialize() since.
NoGate == [op |-> "none", at |-> 0, enabled |-> FALSE, locked |-> FALSE,
           verified |-> FALSE, age |-> 0, checked |-> FALSE,
           granted |-> FALSE, prompted |-> FALSE, recovery |-> "none",
           returned |-> {}, changed |-> FALSE, until |-> 0, disposed |-> FALSE,
           error |-> ""]

----------------------------------------------------------------------------
\* Program constants

RATE_LIMIT_WINDOW    == 60000
RATE_LIMIT_MAX_CALLS == 100

----------------------------------------------------------------------------
\* Maps and files

EmptyMap == [i \in {} |-> 0]

MapSet(m, k, r) == [i \in (DOMAIN m) \cup {k} |-> IF i = k THEN r ELSE m[i]]

MapDelete(m, k) == [i \in (DOMAIN m) \ {k} |-> m[i]]

MapValues(m) == {m[k] : k \in DOMAIN m}

\* A file is absent, holds text that does not parse (a write or copy that was
\* cut short), or holds a JSON array of records.
Absent == [kind |-> "absent", recs |-> {}]
Torn   == [kind |-> "torn", recs |-> {}]

\* JSON.stringify(Array.from(this.snippets.values()))
Serialize(m) == [kind |-> "snap", recs |-> MapValues(m)]

\* A file that parses as an array whose first elements are the records of m
\* and whose next element is not an object (null): forEach throws at that
\* element, after this.snippets.clear() and after the elements before it
\* have been set.
Partial(m) == [kind |-> "partial", recs |-> MapValues(m)]

\* JSON.parse + forEach(snippet => this.snippets.set(snippet.id, snippet))
ParseInto(file) ==
  [i \in {r.id : r \in file.recs} |-> CHOOSE r \in file.recs : r.id = i]

existsSync(file) == file.kind # "absent"

\* loadFromBackup(): the backup's records if it exists and parses, those
\* before the failing element if forEach throws, else the map is left as it
\* was.
loadFromBackup(cur, bak) ==
  IF existsSync(bak) /\ bak.kind \in {"snap", "partial"} THEN ParseInto(bak) ELSE cur

\* A loadSnippets without the fallback to the backup (C4 must not hold of it).
loadSnippets_NoFallback(cur, prim, bak) ==
  IF ~existsSync(prim) THEN cur
  ELSE IF prim.kind = "snap" THEN ParseInto(prim)
  ELSE cur

\* loadSnippets(): nothing is read when the primary does not exist; a primary
\* that fails to read or parse sends the load to the backup.
loadSnippets(cur, prim, bak) ==
  IF ~existsSync(prim) THEN cur
  ELSE IF prim.kind = "snap" THEN ParseInto(prim)
  ELSE IF prim.kind = "partial" THEN loadFromBackup(ParseInto(prim), bak)
  ELSE loadFromBackup(cur, bak)

----------------------------------------------------------------------------
\* Rate limiter

RateKey(operation, t) == <<operation, t \div RATE_LIMIT_WINDOW>>

\* A cleanup that deletes nothing (C34 must not hold of it).
cleanupRateLimits_Keeps(m, t) == m

\* cleanupRateLimits(): every entry with now > entry.resetTime is deleted
cleanupRateLimits(m, t) ==
  [k \in {x \in DOMAIN m : ~(t > m[x].resetTime)} |-> m[k]]

\* A checkRateLimit that lets one call more through (C8 must not hold of it).
checkRateLimit_OneMore(m, operation, t) ==
  LET key == RateKey(operation, t) IN
  IF key \notin DOMAIN m \/ t > m[key].resetTime THEN TRUE
  ELSE m[key].count <= RATE_LIMIT_MAX_CALLS

\* checkRateLimit's return value
checkRateLimit(m, operation, t) ==
  LET key == RateKey(operation, t) IN
  IF key \notin DOMAIN m \/ t > m[key].resetTime THEN TRUE
  ELSE m[key].count < RATE_LIMIT_MAX_CALLS

\* A limiter that goes on counting the calls it denies (C35 must not hold of
\* it).
checkRateLimitMap_CountsDenied(m, operation, t) ==
  LET key == RateKey(operation, t) IN
  IF key \notin DOMAIN m \/ t > m[key].resetTime
    THEN MapSet(m, key, [count |-> 1, resetTime |-> t + RATE_LIMIT_WINDOW])
  ELSE MapSet(m, key, [count |-> m[key].count + 1, resetTime |-> m[key].resetTime])

\* checkRateLimit's effect on the map
checkRateLimitMap(m, operation, t) ==
  LET key == RateKey(operation, t) IN
  IF key \notin DOMAIN m \/ t > m[key].resetTime
    THEN MapSet(m, key, [count |-> 1, resetTime |-> t + RATE_LIMIT_WINDOW])
  ELSE IF m[key].count >= RATE_LIMIT_MAX_CALLS THEN m
  ELSE MapSet(m, key, [count |-> m[key].count + 1, resetTime |-> m[key].resetTime])

\* The first lines of every repository method: cleanup, then the check.
RatePass(operation) ==
  checkRateLimit(cleanupRateLimits(rateLimitMap, now), operation, now)

RateStep(operation) ==
  rateLimitMap' =
    checkRateLimitMap(cleanupRateLimits(rateLimitMap, now), operation, now)

----------------------------------------------------------------------------
\* Strings.  The texts callers and import files supply are drawn from a fixed
\* vocabulary; what the code computes of a string (length, trim(), includes(),
\* a regular expression test) is given for each text of the vocabulary.

\* A run of 201 letters.
LongText == "a{201}"

Texts ==
  {"", " ", "-", "a", "b", "ts", "py", "*", "<b>", "javascript:void(0)", "../a",
   "constructor", "javascript:alert(1)", LongText}

\* s.length
length(s) ==
  CASE s = "" -> 0
    [] s \in {" ", "-", "a", "b", "*"} -> 1
    [] s \in {"ts", "py"} -> 2
    [] s = "<b>" -> 3
    [] s = "../a" -> 4
    [] s = "constructor" -> 11
    [] s = "javascript:void(0)" -> 18
    [] s = "javascript:alert(1)" -> 19
    [] s = LongText -> 201

\* s.trim()
trim(s) == IF s = " " THEN "" ELSE s

\* s.toLowerCase().replace(/\s+/g, "-")
slug(s) == IF s = " " THEN "-" ELSE s

\* The patterns of the code's lists that s.toLowerCase().includes(pattern)
\* finds in s.
Found(s) ==
  CASE s = "javascript:void(0)" -> {"javascript:", "script"}
    [] s = "javascript:alert(1)" -> {"javascript:alert(", "javascript:", "script"}
    [] s = "../a" -> {"../"}
    [] s = "<b>" -> {"<", ">"}
    [] s = "constructor" -> {"constructor"}
    [] OTHER -> {}

\* for (const pattern of patterns) if (s.toLowerCase().includes(pattern)) ...
includesAny(s, patterns) == Found(s) \cap patterns # {}

\* s.toLowerCase(), for the texts searched and searched for
lower(s) ==
  CASE s = "A" -> "a"
    [] s = "B" -> "b"
    [] s = "AB" -> "ab"
    [] OTHER -> s

\* s.includes(t), for the lower-case texts searched ("", "-", "a", "b", "ab",
\* "ts", "py") and searched for
contains(s, t) == t = "" \/ s = t \/ (s = "ab" /\ t \in {"a", "b"})

\* /<[^>]*>/.test(s)
hasTag(s) == s = "<b>"

\* /^[a-zA-Z0-9_-]+$/.test(s); the texts of the vocabulary that pass hold no
\* dot or underscore, so that /^[a-zA-Z0-9.-]+$/ and /^[a-zA-Z0-9._-]+$/ pass
\* the same texts.
isWord(s) == s \in {"-", "a", "b", "ts", "py", "constructor", LongText}

\* dangerousPatterns of validateSnippetData and of the input boxes for name,
\* prefix, description, tags and file types (the entries a text of the
\* vocabulary can hold, and three it cannot)
dangerousPatterns == {"<script", "javascript:", "data:", "../", "etc/passwd"}

\* dangerousPatterns of createSnippetFromSelection and
\* createSnippetFromDragDrop, for the body
bodyPatterns == {"javascript:alert(", "../", "etc/passwd"}

\* The same list in the order of the source: the loop over it stops at the
\* first pattern the content includes.
dangerousBodyPatterns ==
  <<"javascript:alert(", "data:text/html,<script>", "vbscript:msgbox(", "onload=alert(",
    "onerror=alert(", "msgbox(", "../../../", "../.././", "../../../../", "../", "..\\",
    "%3cscript%3e", "%3c/script%3e", "etc/passwd", "etc/shadow", "windows/system32",
    "c:\\windows">>

\* suspiciousPatterns of validateSnippet, for the body
suspiciousPatterns == {"<script", "javascript:", "data:", "vbscript:"}

----------------------------------------------------------------------------
\* Records and import elements

\* A Snippet object built at time t: usageCount 0, not a favorite.  A Date is
\* the number of milliseconds it holds; JSON.stringify writes it as ISO text
\* with the milliseconds and new Date(text) reads the same number back.
SnippetAt(id, t) ==
  [id |-> id, name |-> "a", prefix |-> "a", description |-> "", body |-> "a",
   tags |-> {}, fileTypes |-> {"ts"}, usageCount |-> 0, isFavorite |-> FALSE,
   folderId |-> 0, createdAt |-> t, updatedAt |-> t]

\* The Snippet object the Manager builds: createdAt: new Date(),
\* updatedAt: new Date().
NewSnippet(id) == SnippetAt(id, now)

\* The id the source element was exported with: no id of this store.
SourceId == 0

\* { ...snippet, ...updates }
Merge(snippet, updates) ==
  [f \in (DOMAIN snippet) \cup (DOMAIN updates) |->
     IF f \in DOMAIN updates THEN updates[f] ELSE snippet[f]]

\* An update that leaves updatedAt alone (C25 must not hold of it).
updatedSnippet_KeepsDate(snippet, updates) == Merge(snippet, updates)

\* updateSnippet: { ...snippet, ...updates, updatedAt: new Date() }
updatedSnippet(snippet, updates) ==
  [Merge(snippet, updates) EXCEPT !.updatedAt = now]

\* incrementUsage: snippet.usageCount++; snippet.updatedAt = new Date()
usedSnippet(snippet) ==
  [snippet EXCEPT !.usageCount = @ + 1, !.updatedAt = now]

\* The partial updates callers pass to updateSnippet.
UpdateChoices == <<[name |-> "b"], [isFavorite |-> TRUE], [folderId |-> 1]>>

\* updateSnippet takes a Partial<Snippet>: any field of a record may be named.
FieldUpdates ==
  {[name |-> "b"], [isFavorite |-> TRUE, folderId |-> 1], [usageCount |-> 0],
   [createdAt |-> now + 1]}

\* validateSnippet(snippet), for an element that is an object whose fields
\* have the types of a Snippet
validateSnippet(e) ==
  /\ length(e.name) # 0
  /\ length(e.prefix) # 0
  /\ length(e.body) # 0
  /\ length(e.name) <= 200
  /\ length(e.prefix) <= 50
  /\ length(e.body) <= 100000
  /\ length(e.description) <= 1000
  /\ Cardinality(e.tags) <= 50
  /\ \A tag \in e.tags : length(tag) <= 50 /\ ~includesAny(tag, {"<", ">", "script"})
  /\ Cardinality(e.fileTypes) <= 20
  /\ \A fileType \in e.fileTypes : length(fileType) <= 20 /\ isWord(fileType)
  /\ ~includesAny(e.body, suspiciousPatterns)

SetMin(S) == CHOOSE x \in S : \A y \in S : x <= y

\* generateId() and uuidv4(): the time and a random number, taken to be an id
\* that is not in use.
generateId(used) == SetMin(Ids \ used)

\* Elements of an import file: an object whose name is empty, written by
\* another store, and a well-formed object that was exported from this store.
\* Every element carries the id it was exported with.
ImportElems ==
  {[SnippetAt(SourceId, 0) EXCEPT !.name = ""], SnippetAt(generateId({}), 0)}

ImportSources == UNION {[1..n -> ImportElems] : n \in 1..MaxImport}

\* The ids in use when importSnippets runs: those of the records in the store
\* and those written in the file.
idsInUse(m, src) == (DOMAIN m) \cup {src[i].id : i \in DOMAIN src}

\* An import loop that keeps the id of the source element (C13 must not hold
\* of it).
RECURSIVE importAccept_KeepsId(_, _)
importAccept_KeepsId(src, used) ==
  IF src = <<>> THEN <<>>
  ELSE IF validateSnippet(Head(src))
    THEN <<[Head(src) EXCEPT !.createdAt = now, !.updatedAt = now]>>
           \o importAccept_KeepsId(Tail(src), used)
  ELSE importAccept_KeepsId(Tail(src), used)

\* An import loop that gives up at the first element that fails (C22 must not
\* hold of it).
RECURSIVE importAccept_StopsAtInvalid(_, _)
importAccept_StopsAtInvalid(src, used) ==
  IF src = <<>> THEN <<>>
  ELSE IF validateSnippet(Head(src))
    THEN LET id == generateId(used) IN
         <<[Head(src) EXCEPT !.id = id, !.createdAt = now, !.updatedAt = now]>>
           \o importAccept_StopsAtInvalid(Tail(src), used \cup {id})
  ELSE <<>>

\* The validation loop of importSnippets: the accepted elements, each under a
\* new id, in file order.
RECURSIVE importAccept(_, _)
importAccept(src, used) ==
  IF src = <<>> THEN <<>>
  ELSE IF validateSnippet(Head(src))
    THEN LET id == generateId(used) IN
         <<[Head(src) EXCEPT !.id = id, !.createdAt = now, !.updatedAt = now]>>
           \o importAccept(Tail(src), used \cup {id})
  ELSE importAccept(Tail(src), used)

NumValid(src) == Cardinality({i \in DOMAIN src : validateSnippet(src[i])})

\* for (const snippet of validSnippets) this.snippets.set(snippet.id, snippet)
RECURSIVE importInsert(_, _)
importInsert(m, valid) ==
  IF valid = <<>> THEN m
  ELSE importInsert(MapSet(m, Head(valid).id, Head(valid)), Tail(valid))

\* What importSnippets leaves in this.snippets once validation has run:
\* the map after `if (clearExisting) this.snippets.clear()`.
importCleared(m, clearExisting) == IF clearExisting THEN EmptyMap ELSE m

\* The file importSnippets is given: its size in bytes, whether its text is
\* JSON and of what value, and, for an array, its length and its elements
\* (for an array beyond the ceiling, the first of them).
MAX_IMPORT_SIZE  == 10485760
MAX_IMPORT_COUNT == 10000

ImportFile(src) == [size |-> 1024, json |-> "array", length |-> Len(src), elems |-> src]

\* data.includes("__proto__") || data.includes("constructor") ||
\* data.includes("prototype"): the raw text holds every string of every element.
pollutionMarkers == {"__proto__", "constructor", "prototype"}

rawIncludes(file, patterns) ==
  \E i \in DOMAIN file.elems :
    LET e == file.elems[i] IN
    \/ \E f \in {"name", "prefix", "description", "body"} : includesAny(e[f], patterns)
    \/ \E t \in e.tags \cup e.fileTypes : includesAny(t, patterns)

\* The checks of importSnippets that reject the file as a whole, in the order
\* the code makes them: the error thrown, or "ok".
importRejects(file) ==
  IF file.size > MAX_IMPORT_SIZE THEN "FileTooLarge"
  ELSE IF rawIncludes(file, pollutionMarkers) THEN "InvalidJSON"
  ELSE IF file.json = "garbage" THEN "InvalidJSON"
  ELSE IF file.json # "array" THEN "InvalidJSON"
  ELSE IF file.length > MAX_IMPORT_COUNT THEN "InvalidJSON"
  ELSE "ok"

\* Files that fail one of these checks and no other: too large, holding a
\* marker, no JSON, a JSON object, too many elements.
RejectedFiles ==
  LET good == ImportFile(<<SnippetAt(generateId({}), 0)>>) IN
  {[good EXCEPT !.size = MAX_IMPORT_SIZE + 1],
   ImportFile(<<[SnippetAt(generateId({}), 0) EXCEPT !.body = "constructor"]>>),
   [good EXCEPT !.json = "garbage", !.length = 0, !.elems = <<>>],
   [good EXCEPT !.json = "object", !.length = 0, !.elems = <<>>],
   [good EXCEPT !.length = MAX_IMPORT_COUNT + 1]}

----------------------------------------------------------------------------
\* Repository calls, step by step.  A call runs without interruption up to
\* its first await on file I/O; other calls may run between its I/O steps.

Idle(c) == pc[c] = "idle"

AllIdle == \A c \in Callers : Idle(c)

CanCall(c) == phase = "up" /\ Idle(c) /\ nCalls < MaxCalls

HasFreeId == Ids \ DOMAIN snippets # {}

NoCall == [op |-> "none", pre |-> EmptyMap, post |-> EmptyMap, diskOK |-> FALSE]

\* The call returns (or throws) before any file I/O: `m` is what it leaves in
\* this.snippets.
Returns(c, op, result, m) ==
  /\ snippets' = m
  /\ lastOp' = [op |-> op, result |-> result]
  /\ nCalls' = nCalls + 1
  /\ UNCHANGED <<primary, backup, now, otherVars, callVars, inflight, crashInfo, nSucc, wLast, wPrev, clean>>

\* A saveSnippets that writes without copying the primary to the backup
\* first (C3 must not hold of it).
saveSnippets_NoBackup(c, op, m) ==
  /\ snippets' = m
  /\ pc' = [pc EXCEPT ![c] = "write"]
  /\ buf' = [buf EXCEPT ![c] = Serialize(m)]
  /\ inflight' = [inflight EXCEPT ![c] =
       [op |-> op, pre |-> snippets, post |-> m,
        diskOK |-> loadSnippets(EmptyMap, primary, backup) = snippets]]
  /\ clean' = (clean /\ \A d \in Callers \ {c} : Idle(d))
  /\ lastOp' = [op |-> op, result |-> "pending"]
  /\ nCalls' = nCalls + 1
  /\ UNCHANGED <<primary, backup, now, otherVars, phase, crashInfo, nSucc, wLast, wPrev>>

\* saveSnippets() up to its first await, entered with this.snippets = m:
\* with a primary on disk the copy to the backup is started, without one the
\* map is serialized at once and the write is started.
saveSnippets(c, op, m) ==
  /\ snippets' = m
  /\ IF existsSync(primary)
       THEN pc' = [pc EXCEPT ![c] = "copy"] /\ buf' = buf
       ELSE pc' = [pc EXCEPT ![c] = "write"] /\ buf' = [buf EXCEPT ![c] = Serialize(m)]
  /\ inflight' = [inflight EXCEPT ![c] =
       [op |-> op, pre |-> snippets, post |-> m,
        diskOK |-> loadSnippets(EmptyMap, primary, backup) = snippets]]
  /\ clean' = (clean /\ \A d \in Callers \ {c} : Idle(d))
  /\ lastOp' = [op |-> op, result |-> "pending"]
  /\ nCalls' = nCalls + 1
  /\ UNCHANGED <<primary, backup, now, otherVars, phase, crashInfo, nSucc, wLast, wPrev>>

\* saveSnippet(snippet)
StorageSaveSnippet(c, snippet) ==
  /\ CanCall(c)
  /\ HasFreeId
  /\ RateStep("saveSnippet")
  /\ IF ~RatePass("saveSnippet")
       THEN Returns(c, "saveSnippet", "RateLimitExceeded", snippets)
       ELSE saveSnippets(c, "saveSnippet", MapSet(snippets, snippet.id, snippet))

\* updateSnippet(id, updates)
StorageUpdateSnippet(c, id, updates) ==
  /\ CanCall(c)
  /\ RateStep("updateSnippet")
  /\ IF ~RatePass("updateSnippet")
       THEN Returns(c, "updateSnippet", "RateLimitExceeded", snippets)
     ELSE IF id \notin DOMAIN snippets
       THEN Returns(c, "updateSnippet", "NotFound", snippets)
     ELSE saveSnippets(c, "updateSnippet", MapSet(snippets, id, updatedSnippet(snippets[id], updates)))

\* A deleteSnippet that ignores an id it does not hold (C24 must not hold of
\* it).
StorageDeleteSnippet_Silent(c, id) ==
  /\ CanCall(c)
  /\ RateStep("deleteSnippet")
  /\ IF ~RatePass("deleteSnippet")
       THEN Returns(c, "deleteSnippet", "RateLimitExceeded", snippets)
     ELSE IF id \notin DOMAIN snippets
       THEN Returns(c, "deleteSnippet", "ok", snippets)
     ELSE saveSnippets(c, "deleteSnippet", MapDelete(snippets, id))

\* deleteSnippet(id)
StorageDeleteSnippet(c, id) ==
  /\ CanCall(c)
  /\ RateStep("deleteSnippet")
  /\ IF ~RatePass("deleteSnippet")
       THEN Returns(c, "deleteSnippet", "RateLimitExceeded", snippets)
     ELSE IF id \notin DOMAIN snippets
       THEN Returns(c, "deleteSnippet", "NotFound", snippets)
     ELSE saveSnippets(c, "deleteSnippet", MapDelete(snippets, id))

\* An incrementUsage that reports an id it does not hold (C26 must not hold
\* of it).
StorageIncrementUsage_Throws(c, id) ==
  /\ CanCall(c)
  /\ RateStep("incrementUsage")
  /\ IF ~RatePass("incrementUsage")
       THEN Returns(c, "incrementUsage", "RateLimitExceeded", snippets)
     ELSE IF id \notin DOMAIN snippets
       THEN Returns(c, "incrementUsage", "NotFound", snippets)
     ELSE saveSnippets(c, "incrementUsage",
            MapSet(snippets, id, usedSnippet(snippets[id])))

\* incrementUsage(id)
StorageIncrementUsage(c, id) ==
  /\ CanCall(c)
  /\ RateStep("incrementUsage")
  /\ IF ~RatePass("incrementUsage")
       THEN Returns(c, "incrementUsage", "RateLimitExceeded", snippets)
     ELSE IF id \notin DOMAIN snippets
       THEN Returns(c, "incrementUsage", "ok", snippets)
     ELSE saveSnippets(c, "incrementUsage",
            MapSet(snippets, id, usedSnippet(snippets[id])))

\* importSnippets(filePath, clearExisting), from the point where the file has
\* been read and parsed as an array `src`.
StorageImportSnippets(c, src, clearExisting) ==
  /\ CanCall(c)
  /\ Cardinality(Ids \ idsInUse(snippets, src)) >= NumValid(src)
  /\ RateStep("importSnippets")
  /\ IF ~RatePass("importSnippets")
       THEN Returns(c, "importSnippets", "RateLimitExceeded", snippets)
     ELSE IF NumValid(src) = 0
       THEN Returns(c, "importSnippets", "NoValidRecords", importCleared(snippets, clearExisting))
     ELSE saveSnippets(c, "importSnippets",
            importInsert(importCleared(snippets, clearExisting),
                         importAccept(src, idsInUse(snippets, src))))

\* JSON.stringify of a record: its dates become ISO text; every other field
\* is written as it is.
toJSON(r) ==
  [r EXCEPT !.createdAt = <<"iso", r.createdAt>>, !.updatedAt = <<"iso", r.updatedAt>>]

\* Array.from(this.snippets.values()), each value as JSON.stringify writes it
RECURSIVE valuesJSON(_, _)
valuesJSON(m, ids) ==
  IF ids = {} THEN <<>>
  ELSE LET id == SetMin(ids) IN <<toJSON(m[id])>> \o valuesJSON(m, ids \ {id})

\* exportSnippets(filePath): the file it writes
exportSnippets(m) == ImportFile(valuesJSON(m, DOMAIN m))

\* An importSnippets that clears the map before it looks at the file (C21
\* must not hold of it).
StorageImportFile_ClearsFirst(c, file, clearExisting) ==
  IF importRejects(file) # "ok"
    THEN /\ CanCall(c)
         /\ RateStep("importSnippets")
         /\ IF ~RatePass("importSnippets")
              THEN Returns(c, "importSnippets", "RateLimitExceeded", snippets)
              ELSE Returns(c, "importSnippets", importRejects(file),
                           importCleared(snippets, clearExisting))
    ELSE StorageImportSnippets(c, file.elems, clearExisting)

\* importSnippets(filePath, clearExisting), from its first line: the file is
\* measured, read and parsed; a file that is rejected as a whole makes the
\* call throw before this.snippets is touched.
StorageImportFile(c, file, clearExisting) ==
  IF importRejects(file) # "ok"
    THEN /\ CanCall(c)
         /\ RateStep("importSnippets")
         /\ IF ~RatePass("importSnippets")
              THEN Returns(c, "importSnippets", "RateLimitExceeded", snippets)
              ELSE Returns(c, "importSnippets", importRejects(file), snippets)
    ELSE StorageImportSnippets(c, file.elems, clearExisting)

\* exportSnippets(filePath) followed by importSnippets(filePath, true): the
\* export leaves the store as it is, and the import reads the file the export
\* wrote.
StorageImportExported(c) == StorageImportFile(c, exportSnippets(snippets), TRUE)

\* fs.promises.copyFile(snippetsFile, backupFile) opens and truncates the
\* destination ...
CopyFileStart(c) ==
  /\ phase = "up" /\ pc[c] = "copy"
  /\ backup' = Torn
  /\ pc' = [pc EXCEPT ![c] = "copying"]
  /\ UNCHANGED <<snippets, primary, rateLimitMap, now, otherVars, phase, buf, histVars>>

\* A rotation that leaves the record set being saved in the backup (C23 must
\* not hold of it).
CopyFileDone_CopiesNew(c) ==
  /\ phase = "up" /\ pc[c] = "copying"
  /\ backup' = Serialize(snippets)
  /\ pc' = [pc EXCEPT ![c] = "write"]
  /\ buf' = [buf EXCEPT ![c] = Serialize(snippets)]
  /\ UNCHANGED <<snippets, primary, rateLimitMap, now, otherVars, phase, histVars>>

\* ... and completes with the primary's bytes; saveSnippets then serializes
\* this.snippets as it is now.
CopyFileDone(c) ==
  /\ phase = "up" /\ pc[c] = "copying"
  /\ backup' = primary
  /\ pc' = [pc EXCEPT ![c] = "write"]
  /\ buf' = [buf EXCEPT ![c] = Serialize(snippets)]
  /\ UNCHANGED <<snippets, primary, rateLimitMap, now, otherVars, phase, histVars>>

\* fs.promises.writeFile(snippetsFile, data) opens and truncates the primary ...
WriteFileStart(c) ==
  /\ phase = "up" /\ pc[c] = "write"
  /\ primary' = Torn
  /\ pc' = [pc EXCEPT ![c] = "writing"]
  /\ UNCHANGED <<snippets, backup, rateLimitMap, now, otherVars, phase, buf, histVars>>

\* ... and completes: the call returns successfully.
WriteFileDone(c) ==
  /\ phase = "up" /\ pc[c] = "writing"
  /\ primary' = buf[c]
  /\ pc' = [pc EXCEPT ![c] = "idle"]
  /\ lastOp' = [op |-> inflight[c].op, result |-> "ok"]
  /\ nSucc' = nSucc + 1
  /\ wPrev' = wLast
  /\ wLast' = buf[c]
  /\ inflight' = [inflight EXCEPT ![c] = NoCall]
  /\ UNCHANGED <<snippets, backup, rateLimitMap, now, otherVars, phase, buf, crashInfo, nCalls, clean>>

\* copyFile or writeFile rejects before touching its destination: saveSnippets
\* rethrows and the call fails.
SaveFails(c) ==
  /\ phase = "up" /\ pc[c] \in {"copy", "write"}
  /\ pc' = [pc EXCEPT ![c] = "idle"]
  /\ lastOp' = [op |-> inflight[c].op, result |-> "StorageIOError"]
  /\ inflight' = [inflight EXCEPT ![c] = NoCall]
  /\ clean' = FALSE
  /\ UNCHANGED <<storeVars, rateLimitMap, now, otherVars, phase, buf, crashInfo, nCalls, nSucc, wLast, wPrev>>

\* The process dies: memory is lost, the files stay as they are.
Crash ==
  /\ phase = "up"
  /\ phase' = "down"
  /\ snippets' = EmptyMap
  /\ rateLimitMap' = EmptyMap
  /\ pc' = [c \in Callers |-> "idle"]
  /\ buf' = [c \in Callers |-> Absent]
  /\ crashInfo' =
       IF Cardinality({c \in Callers : ~Idle(c)}) = 1
         THEN LET c == CHOOSE c \in Callers : ~Idle(c) IN
              [one |-> TRUE, pre |-> inflight[c].pre, post |-> inflight[c].post,
               diskOK |-> inflight[c].diskOK]
         ELSE [one |-> FALSE, pre |-> EmptyMap, post |-> EmptyMap, diskOK |-> FALSE]
  /\ inflight' = [c \in Callers |-> NoCall]
  /\ lastOp' = [op |-> "crash", result |-> "none"]
  /\ clean' = FALSE
  /\ UNCHANGED <<primary, backup, now, otherVars, nCalls, nSucc, wLast, wPrev>>

\* initialize() on a newly constructed SnippetStorage: loadSnippets().
Initialize ==
  /\ phase = "down"
  /\ phase' = "up"
  /\ snippets' = loadSnippets(snippets, primary, backup)
  /\ lastOp' = [op |-> "initialize", result |-> "ok"]
  /\ UNCHANGED <<primary, backup, rateLimitMap, now, otherVars, pc, buf, inflight, crashInfo,
                 nCalls, nSucc, wLast, wPrev, clean>>

----------------------------------------------------------------------------
\* Read calls under a moving clock (the rate limiter)

\* A read-only repository method: cleanup, the rate check, then the answer.
StorageRead(operation) ==
  /\ phase = "up"
  /\ LET w == now \div RATE_LIMIT_WINDOW
         h == rateHist.nth[operation]
         n == IF h.win = w THEN h.n + 1 ELSE 1
         passed == RatePass(operation)
     IN /\ n <= (IF operation = "getAllSnippets" THEN MaxBurst ELSE MaxQuiet)
        /\ RateStep(operation)
        /\ rateHist' = [rateHist EXCEPT !.last = [op |-> operation, passed |-> passed],
                                        !.nth[operation] = [win |-> w, n |-> n],
                                        !.denied[operation] = @ \/ ~passed]
        /\ lastOp' = [op |-> operation,
                      result |-> IF passed THEN "ok" ELSE "RateLimitExceeded"]
  /\ UNCHANGED <<storeVars, now, callVars, inflight, crashInfo, nCalls, nSucc, wLast,
                 wPrev, clean, pinVars, sessionVars, timerVars, gate>>

StorageGetAllSnippets == StorageRead("getAllSnippets")

StorageGetStats == StorageRead("getStats")

\* Time passes.
RateTick(d) ==
  /\ rateHist.ticks < MaxTicks
  /\ now' = now + d
  /\ rateHist' = [rateHist EXCEPT !.ticks = @ + 1]
  /\ UNCHANGED <<storeVars, rateLimitMap, callVars, histVars, pinVars, sessionVars,
                 timerVars, gate>>

RateDeltas == {1, RATE_LIMIT_WINDOW}

----------------------------------------------------------------------------
\* PinProtectionService.  Its source file is not part of the repository
\* snapshot: the service is modelled from the AccessGate description.

MaxAttempts     == 2        \* the configured number of failed attempts
LockoutDuration == 900000   \* the configured length of a lockout, ms

\* The gate: the service's state and the Manager's session, with what one
\* checkPinVerification returned (granted), whether it showed the PIN box
\* (prompted) and whether a lockout began in it (locks).
GateNow ==
  [enabled |-> pinEnabled, pin |-> storedPin, code |-> storedCode,
   failed |-> failedAttempts, until |-> lockedUntil,
   verified |-> isPinVerified, time |-> pinVerificationTime,
   granted |-> FALSE, prompted |-> FALSE, locks |-> FALSE, recovery |-> "none"]

SetGate(r) ==
  /\ pinEnabled' = r.enabled
  /\ storedPin' = r.pin
  /\ storedCode' = r.code
  /\ failedAttempts' = r.failed
  /\ lockedUntil' = r.until
  /\ isPinVerified' = r.verified
  /\ pinVerificationTime' = r.time

\* getPinProtectionStatus().locked
statusLocked(s) == s.until # 0 /\ now < s.until

\* verifyPin(pin): its return value ...
verifyPinOk(s, pin) == pin = s.pin

\* ... and its effect: a correct PIN clears the failures, a wrong one counts
\* and, at the configured number, starts a lockout.  (Failures beyond the
\* configured number are not told apart.)
verifyPin(s, pin) ==
  IF pin = s.pin THEN [s EXCEPT !.failed = 0, !.until = 0]
  ELSE LET n == IF s.failed < MaxAttempts THEN s.failed + 1 ELSE s.failed IN
       IF n >= MaxAttempts
         THEN [s EXCEPT !.failed = n, !.until = now + LockoutDuration, !.locks = TRUE]
         ELSE [s EXCEPT !.failed = n]

\* verifyEmergencyCode(code): a wrong code changes nothing.
verifyEmergencyCode(s, code) == code = s.code

\* enablePinProtection(pin, emergencyCode): configuring a PIN leaves the gate
\* enabled and not locked out, whatever state it was in.
enablePinProtection(s, pin, code) ==
  [s EXCEPT !.enabled = TRUE, !.pin = pin, !.code = code, !.failed = 0, !.until = 0]

----------------------------------------------------------------------------
\* SnippetManager: the PIN gate

PIN_SESSION_DURATION == 1800000

\* The period of the setInterval in startPinSessionMonitoring
SWEEP_PERIOD == 60000

\* /^\d{4,8}$/.test(newPin)
IsPinFormat(text) ==
  /\ Len(text) >= 4 /\ Len(text) <= 8
  /\ \A i \in 1..Len(text) : text[i] \in Digits

\* Math.random().toString(36).substring(2, 10).toUpperCase(): a code other
\* than the one on record.
newEmergencyCode(old) == CHOOSE c \in Codes : c # old

\* A handleForgotPin that takes any new PIN that was typed (C14 must not hold
\* of it).
handleForgotPin_AnyPin(s, in) ==
  IF in.code = NoInput THEN [s EXCEPT !.recovery = "cancelled"]
  ELSE IF ~verifyEmergencyCode(s, in.code) THEN [s EXCEPT !.recovery = "refused"]
  ELSE IF in.newPin = NoInput THEN [s EXCEPT !.recovery = "cancelled"]
  ELSE [enablePinProtection(s, in.newPin, newEmergencyCode(s.code))
          EXCEPT !.verified = TRUE, !.time = now, !.granted = TRUE, !.recovery = "done"]

\* A handleForgotPin that marks the session verified before it looks at the
\* emergency code (C15 must not hold of it).
handleForgotPin_EarlySession(s, in) ==
  IF in.code = NoInput THEN [s EXCEPT !.recovery = "cancelled"]
  ELSE IF ~verifyEmergencyCode(s, in.code) THEN [s EXCEPT !.verified = TRUE, !.time = now, !.recovery = "refused"]
  ELSE IF in.newPin = NoInput THEN [s EXCEPT !.recovery = "cancelled"]
  ELSE IF ~IsPinFormat(in.newPin) THEN [s EXCEPT !.recovery = "badPin"]
  ELSE [enablePinProtection(s, in.newPin, newEmergencyCode(s.code))
          EXCEPT !.verified = TRUE, !.time = now, !.granted = TRUE, !.recovery = "done"]

\* handleForgotPin(), entered in gate state s
handleForgotPin(s, in) ==
  IF in.code = NoInput THEN [s EXCEPT !.recovery = "cancelled"]
  ELSE IF ~verifyEmergencyCode(s, in.code) THEN [s EXCEPT !.recovery = "refused"]
  ELSE IF in.newPin = NoInput THEN [s EXCEPT !.recovery = "cancelled"]
  ELSE IF ~IsPinFormat(in.newPin) THEN [s EXCEPT !.recovery = "badPin"]
  ELSE [enablePinProtection(s, in.newPin, newEmergencyCode(s.code))
          EXCEPT !.verified = TRUE, !.time = now, !.granted = TRUE, !.recovery = "done"]

\* A checkPinVerification that does not look at the lockout (C9 must not hold
\* of it).
checkPinVerification_NoLockout(s, in) ==
  IF ~s.enabled THEN [s EXCEPT !.granted = TRUE]
  ELSE IF s.verified /\ now - s.time < PIN_SESSION_DURATION THEN [s EXCEPT !.granted = TRUE]
  ELSE IF in.pin = NoInput THEN [s EXCEPT !.prompted = TRUE]
  ELSE IF verifyPinOk(s, in.pin)
    THEN [verifyPin(s, in.pin)
            EXCEPT !.prompted = TRUE, !.verified = TRUE, !.time = now, !.granted = TRUE]
  ELSE IF in.forgot
    THEN handleForgotPin([verifyPin(s, in.pin) EXCEPT !.prompted = TRUE], in)
  ELSE [verifyPin(s, in.pin) EXCEPT !.prompted = TRUE]

\* A checkPinVerification whose session lasts one millisecond longer (C10
\* must not hold of it).
checkPinVerification_LateExpiry(s, in) ==
  IF ~s.enabled THEN [s EXCEPT !.granted = TRUE]
  ELSE IF statusLocked(s) THEN s
  ELSE IF s.verified /\ now - s.time <= PIN_SESSION_DURATION THEN [s EXCEPT !.granted = TRUE]
  ELSE IF in.pin = NoInput THEN [s EXCEPT !.prompted = TRUE]
  ELSE IF verifyPinOk(s, in.pin)
    THEN [verifyPin(s, in.pin)
            EXCEPT !.prompted = TRUE, !.verified = TRUE, !.time = now, !.granted = TRUE]
  ELSE IF in.forgot
    THEN handleForgotPin([verifyPin(s, in.pin) EXCEPT !.prompted = TRUE], in)
  ELSE [verifyPin(s, in.pin) EXCEPT !.prompted = TRUE]

\* A checkPinVerification that restarts a valid session's 30 minutes at every
\* check (C16 must not hold of it).
checkPinVerification_Sliding(s, in) ==
  IF ~s.enabled THEN [s EXCEPT !.granted = TRUE]
  ELSE IF statusLocked(s) THEN s
  ELSE IF s.verified /\ now - s.time < PIN_SESSION_DURATION
    THEN [s EXCEPT !.time = now, !.granted = TRUE]
  ELSE IF in.pin = NoInput THEN [s EXCEPT !.prompted = TRUE]
  ELSE IF verifyPinOk(s, in.pin)
    THEN [verifyPin(s, in.pin)
            EXCEPT !.prompted = TRUE, !.verified = TRUE, !.time = now, !.granted = TRUE]
  ELSE IF in.forgot
    THEN handleForgotPin([verifyPin(s, in.pin) EXCEPT !.prompted = TRUE], in)
  ELSE [verifyPin(s, in.pin) EXCEPT !.prompted = TRUE]

\* A checkPinVerification that marks the session verified as soon as a PIN
\* was typed (C17 must not hold of it).
checkPinVerification_EarlySession(s, in) ==
  IF ~s.enabled THEN [s EXCEPT !.granted = TRUE]
  ELSE IF statusLocked(s) THEN s
  ELSE IF s.verified /\ now - s.time < PIN_SESSION_DURATION THEN [s EXCEPT !.granted = TRUE]
  ELSE IF in.pin = NoInput THEN [s EXCEPT !.prompted = TRUE]
  ELSE IF verifyPinOk(s, in.pin)
    THEN [verifyPin(s, in.pin)
            EXCEPT !.prompted = TRUE, !.verified = TRUE, !.time = now, !.granted = TRUE]
  ELSE IF in.forgot
    THEN handleForgotPin([verifyPin(s, in.pin) EXCEPT !.prompted = TRUE], in)
  ELSE [verifyPin(s, in.pin) EXCEPT !.prompted = TRUE, !.verified = TRUE, !.time = now]

\* A checkPinVerification that submits an empty box for verification as well
\* (C38 must not hold of it).
checkPinVerification_SubmitsEmpty(s, in) ==
  IF ~s.enabled THEN [s EXCEPT !.granted = TRUE]
  ELSE IF statusLocked(s) THEN s
  ELSE IF s.verified /\ now - s.time < PIN_SESSION_DURATION THEN [s EXCEPT !.granted = TRUE]
  ELSE IF verifyPinOk(s, in.pin)
    THEN [verifyPin(s, in.pin)
            EXCEPT !.prompted = TRUE, !.verified = TRUE, !.time = now, !.granted = TRUE]
  ELSE IF in.forgot
    THEN handleForgotPin([verifyPin(s, in.pin) EXCEPT !.prompted = TRUE], in)
  ELSE [verifyPin(s, in.pin) EXCEPT !.prompted = TRUE]

\* checkPinVerification(), entered in gate state s
checkPinVerification(s, in) ==
  IF ~s.enabled THEN [s EXCEPT !.granted = TRUE]
  ELSE IF statusLocked(s) THEN s
  ELSE IF s.verified /\ now - s.time < PIN_SESSION_DURATION THEN [s EXCEPT !.granted = TRUE]
  ELSE IF in.pin = NoInput THEN [s EXCEPT !.prompted = TRUE]
  ELSE IF verifyPinOk(s, in.pin)
    THEN [verifyPin(s, in.pin)
            EXCEPT !.prompted = TRUE, !.verified = TRUE, !.time = now, !.granted = TRUE]
  ELSE IF in.forgot
    THEN handleForgotPin([verifyPin(s, in.pin) EXCEPT !.prompted = TRUE], in)
  ELSE [verifyPin(s, in.pin) EXCEPT !.prompted = TRUE]

\* The dialogs checkPinVerification shows when entered in gate state s: none,
\* or the PIN box and what follows it.
Dialogs(s) ==
  IF checkPinVerification(s, NoDialog).prompted
    THEN {in \in GateInputs :
            /\ in.forgot => in.pin # s.pin
            /\ (in.forgot /\ in.code # s.code) => in.newPin = NoInput}
    ELSE {NoDialog}

\* The same, for a user who types the PIN on record or cancels.
PromptDialogs(s) ==
  IF checkPinVerification(s, NoDialog).prompted
    THEN {NoDialog, [NoDialog EXCEPT !.pin = s.pin]}
    ELSE {NoDialog}

\* A startPinSessionMonitoring that sets the new interval without clearing the
\* one that runs (C37 must not hold of it).
startPinSessionMonitoring_NoClear(h, ts) ==
  LET new == SetMin((1..MaxTimers) \ DOMAIN ts)
  IN [timer |-> new, timers |-> MapSet(ts, new, now + SWEEP_PERIOD)]

\* startPinSessionMonitoring(): the old interval is cleared, a new one is set.
startPinSessionMonitoring(h, ts) ==
  LET cleared == IF h # 0 THEN MapDelete(ts, h) ELSE ts
      new == SetMin((1..MaxTimers) \ DOMAIN cleared)
  IN [timer |-> new, timers |-> MapSet(cleared, new, now + SWEEP_PERIOD)]

\* A checkPinSessionExpiration that only asks, and resets nothing itself
\* (C18 must not hold of it).
checkPinSessionExpiration_NoReset(s, enter, in) ==
  IF ~s.enabled \/ ~s.verified THEN s
  ELSE IF now - s.time >= PIN_SESSION_DURATION
    THEN IF enter THEN checkPinVerification([s EXCEPT !.verified = FALSE, !.time = 0], in)
         ELSE s
  ELSE s

\* checkPinSessionExpiration(): the body of the interval's callback.  `enter`
\* is the user's answer "Enter PIN" to the modal warning.
checkPinSessionExpiration(s, enter, in) ==
  IF ~s.enabled \/ ~s.verified THEN s
  ELSE IF now - s.time >= PIN_SESSION_DURATION
    THEN LET reset == [s EXCEPT !.verified = FALSE, !.time = 0] IN
         IF enter THEN checkPinVerification(reset, in) ELSE reset
  ELSE s

\* The dialogs that follow the modal warning of checkPinSessionExpiration.
SweepDialogs(s, enter) ==
  IF enter /\ s.enabled /\ s.verified /\ now - s.time >= PIN_SESSION_DURATION
    THEN Dialogs([s EXCEPT !.verified = FALSE, !.time = 0])
    ELSE {NoDialog}

----------------------------------------------------------------------------
\* PinProtectionService and the Manager's session: the initial state

InitManager ==
  /\ pinEnabled = FALSE
  /\ storedPin = NoInput
  /\ storedCode = NoInput
  /\ failedAttempts = 0
  /\ lockedUntil = 0
  /\ isPinVerified = FALSE
  /\ pinVerificationTime = 0
  /\ pinSessionTimer = 0
  /\ timers = EmptyMap
  /\ gate = NoGate

\* A state of the repository between two calls: `m` in this.snippets, `prim`
\* and `bak` on disk, `limits` in this.rateLimitMap.
InitState(ph, m, prim, bak, limits) ==
  /\ snippets = m
  /\ primary = prim
  /\ backup = bak
  /\ rateLimitMap = limits
  /\ now = 0
  /\ phase = ph
  /\ pc = [c \in Callers |-> "idle"]
  /\ buf = [c \in Callers |-> Absent]
  /\ inflight = [c \in Callers |-> NoCall]
  /\ crashInfo = [one |-> FALSE, pre |-> EmptyMap, post |-> EmptyMap, diskOK |-> FALSE]
  /\ lastOp = [op |-> "none", result |-> "none"]
  /\ nCalls = 0
  /\ nSucc = 0
  /\ wLast = Absent
  /\ wPrev = Absent
  /\ clean = TRUE
  /\ rateHist = [last |-> [op |-> "none", passed |-> TRUE],
                 nth |-> [op \in RateOps |-> [win |-> -1, n |-> 0]],
                 denied |-> [op \in RateOps |-> FALSE],
                 ticks |-> 0]
  /\ InitManager

\* The state after construction, with `prim` as the snapshot and `bak` as the
\* backup on disk.
InitFiles(prim, bak) == InitState("down", EmptyMap, prim, bak, EmptyMap)

\* The state after construction, with `file` as the snapshot on disk.
InitWith(file) == InitFiles(file, Absent)

\* A new storage location.
Init == InitWith(Absent)

\* The snapshot an earlier run left after one createSnippet.
OneRecord == MapSet(EmptyMap, generateId({}), SnippetAt(generateId({}), 0))

\* A new storage location, or one that an earlier run wrote to.
InitGate == \E file \in {Absent, Serialize(OneRecord)} : InitWith(file)

----------------------------------------------------------------------------
\* SnippetManager: its public operations.  Each is one call run to
\* completion, the repository methods it calls and their file I/O included.

\* cleanupRateLimits() and checkRateLimit(operation) of each repository
\* method called, in call order
RECURSIVE rateAfter(_, _)
rateAfter(m, ops) ==
  IF ops = <<>> THEN m
  ELSE rateAfter(checkRateLimitMap(cleanupRateLimits(m, now), Head(ops), now), Tail(ops))

\* None of the repository methods called throws the rate-limit error.
RECURSIVE Unthrottled(_, _)
Unthrottled(m, ops) ==
  IF ops = <<>> THEN TRUE
  ELSE /\ checkRateLimit(cleanupRateLimits(m, now), Head(ops), now)
       /\ Unthrottled(checkRateLimitMap(cleanupRateLimits(m, now), Head(ops), now), Tail(ops))

\* saveSnippets() run to completion with this.snippets = m
saveSnippetsDone(m) ==
  /\ snippets' = m
  /\ backup' = (IF existsSync(primary) THEN primary ELSE backup)
  /\ primary' = Serialize(m)

\* The Manager has been initialized and not disposed of.
ManagerUp == phase = "up" /\ pinSessionTimer # 0

\* What checkPinVerification would return if it were called now and the
\* user typed nothing.
Open == checkPinVerification(GateNow, NoDialog).granted

\* One Manager call.  `checked`: it calls checkPinVerification, which leaves
\* the gate as r; `run`: it goes on to the repository, calling the methods
\* `ops`; `saves`: the repository rewrites its files, with this.snippets = m;
\* `ret`: the records it hands out.
ManagerCallErr(op, checked, in, r, run, ops, saves, m, ret, err) ==
  /\ ManagerUp
  /\ run => (nCalls < MaxOps /\ Unthrottled(rateLimitMap, ops))
  /\ rateLimitMap' = (IF run THEN rateAfter(rateLimitMap, ops) ELSE rateLimitMap)
  /\ IF run /\ saves THEN saveSnippetsDone(m)
     ELSE snippets' = (IF run THEN m ELSE snippets) /\ UNCHANGED <<primary, backup>>
  /\ SetGate(r)
  /\ gate' = [op |-> (IF run THEN op ELSE "denied"), at |-> now, enabled |-> pinEnabled,
              locked |-> statusLocked(GateNow), verified |-> isPinVerified,
              age |-> now - pinVerificationTime, checked |-> checked,
              granted |-> (IF checked THEN r.granted ELSE Open),
              prompted |-> r.prompted, recovery |-> r.recovery,
              returned |-> (IF run THEN ret ELSE {}),
              changed |-> (<<snippets', primary', backup'>> # <<snippets, primary, backup>>),
              until |-> (IF r.locks THEN now + LockoutDuration ELSE gate.until),
              disposed |-> gate.disposed, error |-> err]
  /\ nCalls' = (IF run THEN nCalls + 1 ELSE nCalls)
  /\ UNCHANGED <<now, rateHist, timerVars, callVars, inflight, crashInfo, lastOp, nSucc,
                 wLast, wPrev, clean>>

\* A Manager call that shows no error message of its own.
ManagerCall(op, checked, in, r, run, ops, saves, m, ret) ==
  ManagerCallErr(op, checked, in, r, run, ops, saves, m, ret, "")

\* createSnippetFromSelection(editor), with a selection and a valid dialog
ManagerCreateSnippet(in) ==
  LET r  == checkPinVerification(GateNow, in)
      id == generateId(DOMAIN snippets)
  IN /\ HasFreeId
     /\ ManagerCall("createSnippetFromSelection", TRUE, in, r, r.granted,
                    <<"saveSnippet">>, TRUE, MapSet(snippets, id, NewSnippet(id)), {})

\* insertSnippet(snippet, editor)
ManagerInsertSnippet(id) ==
  ManagerCall("insertSnippet", FALSE, NoDialog, GateNow, TRUE,
              <<"incrementUsage">>, id \in DOMAIN snippets,
              IF id \in DOMAIN snippets
                THEN MapSet(snippets, id, usedSnippet(snippets[id]))
                ELSE snippets,
              {})

\* getSnippetsForFileType(fileType)
ManagerGetSnippetsForFileType(in, fileType) ==
  LET r == checkPinVerification(GateNow, in) IN
  ManagerCall("getSnippetsForFileType", TRUE, in, r, r.granted,
              <<"getAllSnippets">>, FALSE, snippets,
              {s \in MapValues(snippets) : fileType \in s.fileTypes \/ "*" \in s.fileTypes})

\* Filters that filter nothing: no tags, no file types, favoritesOnly unset.
NoFilters == [tags |-> {}, fileTypes |-> {}, favoritesOnly |-> FALSE]

\* A search that compares the term as it was typed (C33 must not hold of it).
storageSearchSnippets_CaseSensitive(m, searchTerm, filters) ==
  {s \in MapValues(m) :
     /\ searchTerm # "" =>
          \/ contains(s.name, searchTerm)
          \/ contains(s.prefix, searchTerm)
          \/ contains(s.description, searchTerm)
          \/ \E tag \in s.tags : contains(tag, searchTerm)
     /\ filters.tags # {} => filters.tags \cap s.tags # {}
     /\ filters.fileTypes # {} => filters.fileTypes \cap s.fileTypes # {}
     /\ filters.favoritesOnly => s.isFavorite}

\* storage.searchSnippets(searchTerm, filters)
storageSearchSnippets(m, searchTerm, filters) ==
  {s \in MapValues(m) :
     /\ searchTerm # "" =>
          LET term == lower(searchTerm) IN
          \/ contains(lower(s.name), term)
          \/ contains(lower(s.prefix), term)
          \/ contains(lower(s.description), term)
          \/ \E tag \in s.tags : contains(lower(tag), term)
     /\ filters.tags # {} => \E tag \in filters.tags : tag \in s.tags
     /\ filters.fileTypes # {} => \E fileType \in filters.fileTypes : fileType \in s.fileTypes
     /\ filters.favoritesOnly => s.isFavorite}

\* searchSnippets(searchTerm, filters), without a folder filter
ManagerSearchSnippets(in, searchTerm, filters) ==
  LET r == checkPinVerification(GateNow, in) IN
  ManagerCall("searchSnippets", TRUE, in, r, r.granted,
              <<"searchSnippets">>, FALSE, snippets,
              storageSearchSnippets(snippets, searchTerm, filters))

\* updateSnippet(id, updates)
ManagerUpdateSnippet(id, updates) ==
  ManagerCall("updateSnippet", FALSE, NoDialog, GateNow, TRUE,
              <<"updateSnippet">>, id \in DOMAIN snippets,
              IF id \in DOMAIN snippets
                THEN MapSet(snippets, id, updatedSnippet(snippets[id], updates))
                ELSE snippets,
              {})

\* deleteSnippet(id): getSnippet, deleteSnippet, updateFolderSnippetCounts
ManagerDeleteSnippet(id) ==
  ManagerCall("deleteSnippet", FALSE, NoDialog, GateNow, TRUE,
              IF id \in DOMAIN snippets
                THEN <<"getSnippet", "deleteSnippet", "getAllSnippets">>
                ELSE <<"getSnippet", "deleteSnippet">>,
              id \in DOMAIN snippets, MapDelete(snippets, id), {})

\* toggleFavorite(id)
ManagerToggleFavorite(id) ==
  ManagerCall("toggleFavorite", FALSE, NoDialog, GateNow, TRUE,
              IF id \in DOMAIN snippets THEN <<"getSnippet", "updateSnippet">>
                                        ELSE <<"getSnippet">>,
              id \in DOMAIN snippets,
              IF id \in DOMAIN snippets
                THEN MapSet(snippets, id,
                            updatedSnippet(snippets[id], [isFavorite |-> ~snippets[id].isFavorite]))
                ELSE snippets,
              {})

\* getStats(): counts, no records
ManagerGetStats ==
  ManagerCall("getStats", FALSE, NoDialog, GateNow, TRUE, <<"getStats">>, FALSE,
              snippets, {})

\* exportSnippets(): every record is written to the file the user chose.
ManagerExportSnippets ==
  ManagerCall("exportSnippets", FALSE, NoDialog, GateNow, TRUE, <<"exportSnippets">>,
              FALSE, snippets, MapValues(snippets))

\* importSnippets(): the user chose a file holding the array `src`.
ManagerImportSnippets(src, clearExisting) ==
  /\ Cardinality(Ids \ idsInUse(snippets, src)) >= NumValid(src)
  /\ ManagerCall("importSnippets", FALSE, NoDialog, GateNow, TRUE, <<"importSnippets">>,
                 NumValid(src) > 0,
                 IF NumValid(src) > 0
                   THEN importInsert(importCleared(snippets, clearExisting),
                                     importAccept(src, idsInUse(snippets, src)))
                   ELSE importCleared(snippets, clearExisting),
                 {})

\* getAllSnippets()
ManagerGetAllSnippets(in) ==
  LET r == checkPinVerification(GateNow, in) IN
  ManagerCall("getAllSnippets", TRUE, in, r, r.granted, <<"getAllSnippets">>, FALSE,
              snippets, MapValues(snippets))

\* getSnippet(id)
ManagerGetSnippet(in, id) ==
  LET r == checkPinVerification(GateNow, in) IN
  ManagerCall("getSnippet", TRUE, in, r, r.granted, <<"getSnippet">>, FALSE,
              snippets, {s \in MapValues(snippets) : s.id = id})

\* Folder ids: 0 stands for no folder (undefined).
FolderIds == {0, 1}

\* getSnippetsByFolder(folderId): what checkPinVerification returns is not
\* looked at.
ManagerGetSnippetsByFolder(in, folderId) ==
  LET r == checkPinVerification(GateNow, in) IN
  ManagerCall("getSnippetsByFolder", TRUE, in, r, TRUE, <<"getAllSnippets">>, FALSE,
              snippets, {s \in MapValues(snippets) : s.folderId = folderId})

\* moveSnippetToFolder(snippetId, folderId): a first checkPinVerification whose
\* result is not looked at, then this.getSnippet with a check of its own (in2
\* answers its dialogs), this.updateSnippet and updateFolderSnippetCounts.
ManagerMoveSnippetToFolder(in, in2, id, folderId) ==
  LET r1 == checkPinVerification(GateNow, in)
      r2 == checkPinVerification([r1 EXCEPT !.granted = FALSE], in2)
      found == r2.granted /\ id \in DOMAIN snippets
  IN ManagerCall("moveSnippetToFolder", TRUE, in, r2, r2.granted,
                 IF found THEN <<"getSnippet", "updateSnippet", "getAllSnippets">>
                          ELSE <<"getSnippet">>,
                 found,
                 IF found THEN MapSet(snippets, id, updatedSnippet(snippets[id], [folderId |-> folderId]))
                          ELSE snippets,
                 {})

----------------------------------------------------------------------------
\* SnippetManager: the validation of the fields a caller supplies

TextFields == {"name", "prefix", "description", "body"}
ListFields == {"tags", "fileTypes"}

\* Fields that pass every check of every path.
GoodInput ==
  [name |-> "a", prefix |-> "a", description |-> "", body |-> "a", tags |-> {},
   fileTypes |-> {"ts"}]

\* One field with one text of the vocabulary: a partial update, ...
FieldChoices ==
  {[f \in {g} |-> t] : g \in TextFields, t \in Texts}
    \cup {[f \in {g} |-> {t}] : g \in ListFields, t \in Texts}

\* ... what a caller passes or types, all other fields being good, ...
InputChoices == {Merge(GoodInput, u) : u \in FieldChoices}

\* ... and an element of an import file.
ImportChoices == {Merge(SnippetAt(SourceId, 0), u) : u \in FieldChoices}

\* validateSnippetData(data) returns null
validateSnippetData(data) ==
  /\ trim(data.name) # ""
  /\ ~includesAny(trim(data.name), dangerousPatterns)
  /\ ~hasTag(trim(data.name))
  /\ length(trim(data.name)) <= 200
  /\ trim(data.prefix) # ""
  /\ ~includesAny(trim(data.prefix), dangerousPatterns)
  /\ length(trim(data.prefix)) <= 50
  /\ isWord(trim(data.prefix))

\* Content checks without the scan for dangerous patterns (C32 must not hold
\* of them).
contentAccepted_NoScan(content) ==
  /\ trim(content) # ""
  /\ length(content) <= 10000

\* The checks of the selected text / dropped content that
\* createSnippetFromSelection and createSnippetFromDragDrop run first.
contentAccepted(content) ==
  /\ trim(content) # ""
  /\ length(content) <= 10000
  /\ ~includesAny(content, bodyPatterns)

\* for (const pattern of dangerousPatterns) if (content.toLowerCase()
\* .includes(pattern.toLowerCase())): the pattern the error message names,
\* "" when the loop ends without one.
firstDangerous(content) ==
  LET hits == {i \in DOMAIN dangerousBodyPatterns :
                 dangerousBodyPatterns[i] \in Found(content)}
  IN IF hits = {} THEN ""
     ELSE dangerousBodyPatterns[CHOOSE i \in hits : \A j \in hits : i <= j]

\* The error message the content checks show: which check failed, and for
\* the pattern scan the pattern found; "" when the content passes.
contentError(content) ==
  IF trim(content) = "" THEN "empty"
  ELSE IF length(content) > 10000 THEN "tooLong"
  ELSE firstDangerous(content)

\* value.split(",").map(trim).filter(nonempty)
splitList(typed) == {trim(t) : t \in typed} \ {""}

\* showSnippetInputDialog(): validateInput of each box returns null for the
\* text typed, so that the box can be submitted.
boxesAccept(typed) ==
  /\ trim(typed.name) # ""
  /\ ~includesAny(trim(typed.name), dangerousPatterns)
  /\ ~hasTag(trim(typed.name))
  /\ length(trim(typed.name)) <= 200
  /\ trim(typed.prefix) # ""
  /\ ~includesAny(trim(typed.prefix), dangerousPatterns)
  /\ ~hasTag(trim(typed.prefix))
  /\ length(trim(typed.prefix)) <= 50
  /\ isWord(trim(typed.prefix))
  /\ typed.description # "" =>
       /\ ~includesAny(trim(typed.description), dangerousPatterns)
       /\ ~hasTag(trim(typed.description))
       /\ length(trim(typed.description)) <= 1000
  /\ \A tag \in splitList(typed.tags) :
       ~includesAny(tag, dangerousPatterns) /\ ~hasTag(tag) /\ length(tag) <= 50
  /\ Cardinality(splitList(typed.tags)) <= 20
  /\ typed.fileTypes # {}
  /\ \A fileType \in splitList(typed.fileTypes) :
       /\ ~includesAny(fileType, dangerousPatterns)
       /\ ~hasTag(fileType)
       /\ length(fileType) <= 20
       /\ isWord(fileType)
  /\ Cardinality(splitList(typed.fileTypes)) <= 10

\* showSnippetInputDialog(): the SnippetRequest it returns
showSnippetInputDialog(typed) ==
  [name |-> trim(typed.name), prefix |-> trim(typed.prefix),
   description |-> trim(typed.description), body |-> typed.body,
   tags |-> splitList(typed.tags), fileTypes |-> splitList(typed.fileTypes)]

\* createSnippetFromSelection(), once the access check has granted: whether a
\* Snippet is built, and the Snippet.
createSnippetFromSelection(typed, id) ==
  LET data == showSnippetInputDialog(typed) IN
  [ok |-> contentAccepted(typed.body) /\ boxesAccept(typed) /\ validateSnippetData(data),
   snippet |-> Merge(NewSnippet(id), data)]

\* createSnippetFromDragDrop(name, content, folderId, fileType, tags,
\* description, prefix), once the access check has granted; an empty prefix
\* is an omitted one.
createSnippetFromDragDrop(args, id) ==
  LET snippet ==
        [NewSnippet(id) EXCEPT
           !.name = trim(args.name),
           !.prefix = IF args.prefix # "" THEN args.prefix ELSE slug(args.name),
           !.description = args.description, !.body = args.body,
           !.fileTypes = args.fileTypes, !.tags = args.tags]
  IN [ok |-> contentAccepted(args.body) /\ validateSnippetData(snippet),
      snippet |-> snippet]

\* createSnippetFromSelection(editor), whatever is selected and typed
ManagerCreateFromSelection(typed) ==
  LET r  == checkPinVerification(GateNow, NoDialog)
      id == generateId(DOMAIN snippets)
      c  == createSnippetFromSelection(typed, id)
  IN /\ HasFreeId
     /\ ManagerCallErr("createSnippetFromSelection", TRUE, NoDialog, r, r.granted /\ c.ok,
                       <<"saveSnippet">>, TRUE, MapSet(snippets, id, c.snippet), {},
                       IF r.granted THEN contentError(typed.body) ELSE "")

\* createSnippetFromDragDrop(...): saveSnippet, updateFolderSnippetCounts
ManagerCreateFromDragDrop(args) ==
  LET r  == checkPinVerification(GateNow, NoDialog)
      id == generateId(DOMAIN snippets)
      c  == createSnippetFromDragDrop(args, id)
  IN /\ HasFreeId
     /\ ManagerCallErr("createSnippetFromDragDrop", TRUE, NoDialog, r, r.granted /\ c.ok,
                       <<"saveSnippet", "getAllSnippets">>, TRUE,
                       MapSet(snippets, id, c.snippet), {},
                       IF r.granted THEN contentError(args.body) ELSE "")

----------------------------------------------------------------------------
\* SnippetManager: session, timer and clock

\* A step that is no Manager call: `gate` describes the call that has just
\* returned, and keeps the end of the last lockout and whether the Manager
\* was disposed of.
NoManagerCall == gate' = [NoGate EXCEPT !.until = gate.until, !.disposed = gate.disposed]

\* A call of the Manager that concerns its session or its timer: `gate` names
\* it, with the time and the session it started in.
TimerCall(op, disposed) ==
  gate' = [NoGate EXCEPT !.op = op, !.at = now, !.enabled = pinEnabled,
                         !.verified = isPinVerified, !.age = now - pinVerificationTime,
                         !.until = gate.until, !.disposed = disposed]

\* initialize() has been called, and dispose() perhaps after it.
ManagerMade == phase = "up" /\ (pinSessionTimer # 0 \/ gate.disposed)

ManagerQuiet ==
  UNCHANGED <<storeVars, rateLimitMap, now, rateHist, callVars, histVars>>

\* initialize(): pinProtectionService.initialize(), startPinSessionMonitoring()
ManagerInitialize ==
  /\ phase = "up" /\ pinSessionTimer = 0
  /\ LET t == startPinSessionMonitoring(pinSessionTimer, timers) IN
       pinSessionTimer' = t.timer /\ timers' = t.timers
  /\ UNCHANGED <<pinVars, sessionVars>>
  /\ TimerCall("initialize", FALSE)
  /\ ManagerQuiet

\* initialize() called on a Manager whose interval is running.
ManagerReinitialize ==
  /\ phase = "up" /\ pinSessionTimer # 0
  /\ LET t == startPinSessionMonitoring(pinSessionTimer, timers) IN
       pinSessionTimer' = t.timer /\ timers' = t.timers
  /\ UNCHANGED <<pinVars, sessionVars>>
  /\ TimerCall("initialize", FALSE)
  /\ ManagerQuiet

\* A resetPinSession that leaves the interval running as it is (C20 must not
\* hold of it).
resetPinSession_KeepsTimer ==
  /\ ManagerMade
  /\ isPinVerified' = FALSE
  /\ pinVerificationTime' = 0
  /\ UNCHANGED timerVars
  /\ UNCHANGED pinVars
  /\ TimerCall("resetPinSession", gate.disposed)
  /\ ManagerQuiet

\* resetPinSession()
resetPinSession ==
  /\ ManagerMade
  /\ isPinVerified' = FALSE
  /\ pinVerificationTime' = 0
  /\ LET t == startPinSessionMonitoring(pinSessionTimer, timers) IN
       pinSessionTimer' = t.timer /\ timers' = t.timers
  /\ UNCHANGED pinVars
  /\ TimerCall("resetPinSession", gate.disposed)
  /\ ManagerQuiet

\* refreshPinProtectionState(): the service reloads its state, then
\* resetPinSession() and startPinSessionMonitoring() once more.
refreshPinProtectionState ==
  /\ ManagerMade
  /\ isPinVerified' = FALSE
  /\ pinVerificationTime' = 0
  /\ LET t1 == startPinSessionMonitoring(pinSessionTimer, timers)
         t2 == startPinSessionMonitoring(t1.timer, t1.timers)
     IN pinSessionTimer' = t2.timer /\ timers' = t2.timers
  /\ UNCHANGED pinVars
  /\ TimerCall("refreshPinProtectionState", gate.disposed)
  /\ ManagerQuiet

\* dispose()
dispose ==
  /\ phase = "up" /\ pinSessionTimer # 0
  /\ timers' = MapDelete(timers, pinSessionTimer)
  /\ pinSessionTimer' = 0
  /\ UNCHANGED <<pinVars, sessionVars>>
  /\ TimerCall("dispose", TRUE)
  /\ ManagerQuiet

\* The interval h fires: checkPinSessionExpiration().
SweepTick(h, enter, in) ==
  /\ phase = "up" /\ h \in DOMAIN timers /\ timers[h] <= now
  /\ timers' = [timers EXCEPT ![h] = now + SWEEP_PERIOD]
  /\ LET expired == pinEnabled /\ isPinVerified
                      /\ now - pinVerificationTime >= PIN_SESSION_DURATION
         r == checkPinSessionExpiration(GateNow, enter, in)
     IN /\ SetGate(r)
        /\ gate' = [op |-> "checkPinSessionExpiration", at |-> now, enabled |-> pinEnabled,
                    locked |-> statusLocked(GateNow), verified |-> isPinVerified,
                    age |-> now - pinVerificationTime, checked |-> (expired /\ enter),
                    granted |-> r.granted, prompted |-> r.prompted,
                    recovery |-> r.recovery,
                    returned |-> {}, changed |-> FALSE,
                    until |-> (IF r.locks THEN now + LockoutDuration ELSE gate.until),
                    disposed |-> gate.disposed, error |-> ""]
  /\ UNCHANGED pinSessionTimer
  /\ ManagerQuiet

\* The user configures a PIN through the PIN command: the gate is enabled
\* with that PIN and a fresh emergency code, and the session is verified.
ConfigurePin(pin, code) ==
  /\ ManagerUp /\ IsPinFormat(pin)
  /\ SetGate([enablePinProtection(GateNow, pin, code)
                EXCEPT !.verified = TRUE, !.time = now])
  /\ UNCHANGED timerVars
  /\ NoManagerCall
  /\ ManagerQuiet

\* The user turns PIN protection off through the PIN command: the service
\* forgets the PIN and the code; the Manager's session is not touched.
DisablePin ==
  /\ ManagerUp /\ pinEnabled
  /\ pinEnabled' = FALSE
  /\ storedPin' = NoInput
  /\ storedCode' = NoInput
  /\ failedAttempts' = 0
  /\ lockedUntil' = 0
  /\ UNCHANGED <<sessionVars, timerVars>>
  /\ NoManagerCall
  /\ ManagerQuiet

\* Time passes.
GateTick(d) ==
  /\ ManagerUp
  /\ rateHist.ticks < MaxGateTicks
  /\ now' = now + d
  /\ rateHist' = [rateHist EXCEPT !.ticks = @ + 1]
  /\ NoManagerCall
  /\ UNCHANGED <<storeVars, rateLimitMap, callVars, histVars, pinVars, sessionVars,
                 timerVars>>

GateDeltas == {PIN_SESSION_DURATION - 1, PIN_SESSION_DURATION}

Next ==
  \/ Initialize
  \/ Crash
  \/ StorageSaveSnippet(1, NewSnippet(generateId(DOMAIN snippets)))
  \/ \E id \in Ids : StorageUpdateSnippet(1, id, UpdateChoices[1])
  \/ \E id \in Ids : StorageDeleteSnippet(1, id)
  \/ \E id \in Ids : StorageIncrementUsage(1, id)
  \/ \E src \in ImportSources, clearExisting \in BOOLEAN :
       StorageImportSnippets(1, src, clearExisting)
  \/ CopyFileStart(1)
  \/ CopyFileDone(1)
  \/ WriteFileStart(1)
  \/ WriteFileDone(1)
  \/ SaveFails(1)

Spec == Init /\ [][Next]_vars

\* Creations and imports, one call at a time, no crash and no I/O failure.
NextImport ==
  \/ Initialize
  \/ StorageSaveSnippet(1, NewSnippet(generateId(DOMAIN snippets)))
  \/ \E src \in ImportSources, clearExisting \in BOOLEAN :
       StorageImportSnippets(1, src, clearExisting)
  \/ \E file \in RejectedFiles, clearExisting \in BOOLEAN :
       StorageImportFile(1, file, clearExisting)
  \/ CopyFileStart(1)
  \/ CopyFileDone(1)
  \/ WriteFileStart(1)
  \/ WriteFileDone(1)

SpecImport == Init /\ [][NextImport]_vars

\* Records created through the Manager, then exported and imported back.
NextTrip ==
  \/ Initialize
  \/ ManagerInitialize
  \/ \E typed \in InputChoices : ManagerCreateFromSelection(typed)
  \/ \E args \in InputChoices : ManagerCreateFromDragDrop(args)
  \/ StorageImportExported(1)
  \/ CopyFileStart(1)
  \/ CopyFileDone(1)
  \/ WriteFileStart(1)
  \/ WriteFileDone(1)

SpecTrip == InitGate /\ [][NextTrip]_vars

\* The files initialize() may find: none, one that does not read or parse,
\* one whose elements fail part-way, and a snapshot.
LoadFiles == {Absent, Torn, Partial(OneRecord), Serialize(OneRecord)}

InitLoad == \E prim \in LoadFiles, bak \in LoadFiles : InitFiles(prim, bak)

\* initialize() on whatever is on disk, then creations and deletions.
NextLoad ==
  \/ Initialize
  \/ \E id \in Ids : StorageDeleteSnippet(1, id)
  \/ StorageSaveSnippet(1, NewSnippet(generateId(DOMAIN snippets)))
  \/ CopyFileStart(1)
  \/ CopyFileDone(1)
  \/ WriteFileStart(1)
  \/ WriteFileDone(1)

SpecLoad == InitLoad /\ [][NextLoad]_vars

\* An import file whose one element carries a usage count of its own.
FieldSources == {<<[SnippetAt(SourceId, 0) EXCEPT !.usageCount = -1]>>}

\* Every mutating repository call with every kind of partial update, one call
\* at a time, while the clock advances; no crash and no I/O failure.
NextFields ==
  \/ Initialize
  \/ StorageSaveSnippet(1, NewSnippet(generateId(DOMAIN snippets)))
  \/ \E id \in Ids, updates \in FieldUpdates : StorageUpdateSnippet(1, id, updates)
  \/ \E id \in Ids : StorageDeleteSnippet(1, id)
  \/ \E id \in Ids : StorageIncrementUsage(1, id)
  \/ \E src \in FieldSources : StorageImportSnippets(1, src, FALSE)
  \/ CopyFileStart(1)
  \/ CopyFileDone(1)
  \/ WriteFileStart(1)
  \/ WriteFileDone(1)
  \/ RateTick(1)

SpecFields == Init /\ [][NextFields]_vars

\* updateSnippet's Partial<Snippet> may name the id field as well.
KeyUpdates == {[name |-> "b"]} \cup {[id |-> other] : other \in Ids}

\* initialize, create, update, delete, incrementUsage and import, one call at
\* a time; no crash and no I/O failure.
NextKeys ==
  \/ Initialize
  \/ StorageSaveSnippet(1, NewSnippet(generateId(DOMAIN snippets)))
  \/ \E id \in Ids, updates \in KeyUpdates : StorageUpdateSnippet(1, id, updates)
  \/ \E id \in Ids : StorageDeleteSnippet(1, id)
  \/ \E id \in Ids : StorageIncrementUsage(1, id)
  \/ \E src \in FieldSources : StorageImportSnippets(1, src, FALSE)
  \/ CopyFileStart(1)
  \/ CopyFileDone(1)
  \/ WriteFileStart(1)
  \/ WriteFileDone(1)

SpecKeys == Init /\ [][NextKeys]_vars

\* Two calls in flight together, no crash and no I/O failure.
NextOverlap ==
  \/ Initialize
  \/ \E c \in Callers : StorageSaveSnippet(c, NewSnippet(generateId(DOMAIN snippets)))
  \/ \E c \in Callers, id \in Ids : StorageUpdateSnippet(c, id, UpdateChoices[1])
  \/ \E c \in Callers, id \in Ids : StorageDeleteSnippet(c, id)
  \/ \E c \in Callers, id \in Ids : StorageIncrementUsage(c, id)
  \/ \E c \in Callers : CopyFileStart(c)
  \/ \E c \in Callers : CopyFileDone(c)
  \/ \E c \in Callers : WriteFileStart(c)
  \/ \E c \in Callers : WriteFileDone(c)

SpecOverlap == Init /\ [][NextOverlap]_vars

\* The rate limiter: read calls and the clock.
NextRate ==
  \/ Initialize
  \/ StorageGetAllSnippets
  \/ StorageGetStats
  \/ \E d \in RateDeltas : RateTick(d)

SpecRate == Init /\ [][NextRate]_vars

\* The repository methods that change the store.
MutatingOps ==
  {"saveSnippet", "updateSnippet", "deleteSnippet", "incrementUsage", "importSnippets"}

\* The repository after initialize() has loaded one record and `operation`
\* has then been called RATE_LIMIT_MAX_CALLS - 1 times within the window that
\* starts at time 0, each time without changing the store: updateSnippet,
\* deleteSnippet and incrementUsage with an id the store does not hold,
\* importSnippets with a file that is rejected, saveSnippet with the record
\* the store holds (which rotates that snapshot into the backup).
InitNearLimit ==
  \E operation \in MutatingOps :
    InitState("up", OneRecord, Serialize(OneRecord),
              IF operation = "saveSnippet" THEN Serialize(OneRecord) ELSE Absent,
              MapSet(EmptyMap, RateKey(operation, 0),
                     [count |-> RATE_LIMIT_MAX_CALLS - 1, resetTime |-> RATE_LIMIT_WINDOW]))

\* Every mutating call, on a repository one call short of the limit for one
\* of its operations.
NextNearLimit ==
  \/ StorageSaveSnippet(1, NewSnippet(generateId(DOMAIN snippets)))
  \/ \E id \in Ids, updates \in FieldUpdates : StorageUpdateSnippet(1, id, updates)
  \/ \E id \in Ids : StorageDeleteSnippet(1, id)
  \/ \E id \in Ids : StorageIncrementUsage(1, id)
  \/ \E src \in FieldSources, clearExisting \in BOOLEAN :
       StorageImportSnippets(1, src, clearExisting)
  \/ CopyFileStart(1)
  \/ CopyFileDone(1)
  \/ WriteFileStart(1)
  \/ WriteFileDone(1)

SpecNearLimit == InitNearLimit /\ [][NextNearLimit]_vars

\* The clock moves to the start of the next window, or just past it.
PruneDeltas == {RATE_LIMIT_WINDOW, RATE_LIMIT_WINDOW + 1}

\* Repository calls of several operations, reads and writes, while windows
\* pass.
NextPrune ==
  \/ Initialize
  \/ StorageSaveSnippet(1, NewSnippet(generateId(DOMAIN snippets)))
  \/ \E id \in Ids : StorageDeleteSnippet(1, id)
  \/ CopyFileStart(1)
  \/ CopyFileDone(1)
  \/ WriteFileStart(1)
  \/ WriteFileDone(1)
  \/ StorageGetStats
  \/ \E d \in PruneDeltas : RateTick(d)

SpecPrune == Init /\ [][NextPrune]_vars

\* The ids the Manager's callers ask for: those of the records in the store
\* and one that no record carries.
ProbeIds ==
  (DOMAIN snippets) \cup (IF HasFreeId THEN {generateId(DOMAIN snippets)} ELSE {})

\* The PIN gate: the session, the sweep, the clock, and a write and a read of
\* the Manager that call checkPinVerification with every answer to its
\* dialogs.
NextPin ==
  \/ Initialize
  \/ ManagerInitialize
  \/ ConfigurePin(PinA, CodeA)
  \/ resetPinSession
  \/ refreshPinProtectionState
  \/ dispose
  \/ \E d \in GateDeltas : GateTick(d)
  \/ \E h \in DOMAIN timers, enter \in BOOLEAN :
       \E in \in SweepDialogs(GateNow, enter) : SweepTick(h, enter, in)
  \/ \E in \in Dialogs(GateNow) : ManagerCreateSnippet(in)
  \/ \E in \in Dialogs(GateNow) : ManagerGetAllSnippets(in)

SpecPin == InitGate /\ [][NextPin]_vars

\* The calls that start and stop the sweep, in any order, while the clock
\* moves and the intervals fire.
NextTimers ==
  \/ Initialize
  \/ ManagerInitialize
  \/ ManagerReinitialize
  \/ ConfigurePin(PinA, CodeA)
  \/ resetPinSession
  \/ refreshPinProtectionState
  \/ dispose
  \/ \E d \in GateDeltas : GateTick(d)
  \/ \E h \in DOMAIN timers, enter \in BOOLEAN :
       \E in \in SweepDialogs(GateNow, enter) : SweepTick(h, enter, in)

SpecTimers == InitGate /\ [][NextTimers]_vars

\* One access check after another: a PIN is configured, the session is
\* reset, the clock moves, and a write and a read of the Manager call
\* checkPinVerification with every answer to its dialogs.
NextCheck ==
  \/ Initialize
  \/ ManagerInitialize
  \/ ConfigurePin(PinA, CodeA)
  \/ DisablePin
  \/ resetPinSession
  \/ \E d \in GateDeltas : GateTick(d)
  \/ \E in \in Dialogs(GateNow) : ManagerCreateSnippet(in)
  \/ \E in \in Dialogs(GateNow) : ManagerGetAllSnippets(in)

SpecCheck == InitGate /\ [][NextCheck]_vars

\* The Manager: the same, its other operations that call
\* checkPinVerification, and its operations that never call it.
NextGate ==
  \/ NextPin
  \/ \E in \in PromptDialogs(GateNow), id \in ProbeIds : ManagerGetSnippet(in, id)
  \/ \E in \in PromptDialogs(GateNow), folderId \in FolderIds :
       ManagerGetSnippetsByFolder(in, folderId)
  \/ \E in \in PromptDialogs(GateNow), fileType \in {"ts", "py"} :
       ManagerGetSnippetsForFileType(in, fileType)
  \/ \E in \in PromptDialogs(GateNow), favoritesOnly \in BOOLEAN :
       ManagerSearchSnippets(in, IF favoritesOnly THEN "" ELSE "a",
                             [NoFilters EXCEPT !.favoritesOnly = favoritesOnly])
  \/ \E in \in PromptDialogs(GateNow), id \in ProbeIds :
       \E in2 \in PromptDialogs([checkPinVerification(GateNow, in) EXCEPT !.granted = FALSE]) :
         ManagerMoveSnippetToFolder(in, in2, id, generateId({}))
  \/ \E id \in ProbeIds : ManagerInsertSnippet(id)
  \/ \E id \in ProbeIds : ManagerUpdateSnippet(id, UpdateChoices[1])
  \/ \E id \in ProbeIds : ManagerDeleteSnippet(id)
  \/ \E id \in ProbeIds : ManagerToggleFavorite(id)
  \/ ManagerGetStats
  \/ ManagerExportSnippets
  \/ \E e \in ImportElems, clearExisting \in BOOLEAN :
       ManagerImportSnippets(<<e>>, clearExisting)

SpecGate == InitGate /\ [][NextGate]_vars

\* The paths that admit or change a record's fields, PIN protection being
\* off: both creations, updateSnippet and importSnippets.
NextAdmit ==
  \/ Initialize
  \/ ManagerInitialize
  \/ \E typed \in InputChoices : ManagerCreateFromSelection(typed)
  \/ \E args \in InputChoices : ManagerCreateFromDragDrop(args)
  \/ \E id \in ProbeIds, updates \in FieldChoices : ManagerUpdateSnippet(id, updates)
  \/ \E e \in ImportChoices, clearExisting \in BOOLEAN :
       ManagerImportSnippets(<<e>>, clearExisting)

SpecAdmit == InitGate /\ [][NextAdmit]_vars

\* The records an earlier run may have left under an id: names, descriptions
\* and tags in both cases, favourites and others.
SearchRecords(id) ==
  {[SnippetAt(id, 0) EXCEPT !.name = n, !.prefix = "-", !.description = d, !.tags = t,
                            !.isFavorite = f] :
     n \in {"b", "AB"}, d \in {"", "ts"}, t \in {{}, {"A"}}, f \in BOOLEAN}

\* The snapshots an earlier run may have left: one record or two.
SearchFiles ==
  {Serialize(MapSet(EmptyMap, 1, r)) : r \in SearchRecords(1)}
    \cup {Serialize(MapSet(MapSet(EmptyMap, 1, r),
                           2, [SnippetAt(2, 0) EXCEPT !.fileTypes = {"py"},
                                                      !.isFavorite = f])) :
            r \in SearchRecords(1), f \in BOOLEAN}

InitSearch == \E file \in SearchFiles : InitWith(file)

SearchTerms == {"", "a", "B", "-", "ts"}

SearchFilters ==
  [tags : {{}, {"A"}, {"a", "b"}}, fileTypes : {{}, {"py"}, {"ts", "py"}},
   favoritesOnly : BOOLEAN]

\* Searches over the records found on disk, PIN protection being off.
NextSearch ==
  \/ Initialize
  \/ ManagerInitialize
  \/ \E searchTerm \in SearchTerms, filters \in SearchFilters :
       ManagerSearchSnippets(NoDialog, searchTerm, filters)

SpecSearch == InitSearch /\ [][NextSearch]_vars

\* What is selected or dropped and the name typed for it, all other fields
\* being good.
ContentChoices ==
  {Merge(GoodInput, [name |-> n, body |-> b]) : n \in {"a", "b"}, b \in Texts}

\* Both creations, PIN protection being off, with every content.
NextCreate ==
  \/ Initialize
  \/ ManagerInitialize
  \/ \E typed \in ContentChoices : ManagerCreateFromSelection(typed)
  \/ \E args \in ContentChoices : ManagerCreateFromDragDrop(args)

SpecCreate == InitGate /\ [][NextCreate]_vars

----------------------------------------------------------------------------
\* Claims about the repository

\* C1: importAll on a store that holds records, with a source whose every
\* element fails validation, fails with the no-valid-records error and leaves
\* the in-memory records, the primary snapshot and the backup as they were,
\* for clearExisting = false and for clearExisting = true.  (Stated for a
\* store whose snapshot agrees with its memory.)
C1_ImportAllInvalidUnchanged ==
  [][(/\ nCalls' # nCalls
      /\ lastOp'.op = "importSnippets"
      /\ lastOp'.result = "NoValidRecords"
      /\ DOMAIN snippets # {}
      /\ primary = Serialize(snippets))
     => UNCHANGED <<snippets, primary, backup>>]_vars

\* C3: starting from an empty storage location, after N successful
\* non-overlapping mutating calls the backup equals the primary as mutation
\* N-1 wrote it, and is absent when N <= 1.
C3_BackupMonotonic ==
  (clean /\ AllIdle) =>
    IF nSucc <= 1 THEN backup = Absent ELSE backup = wPrev

C3_Witness ==
  clean /\ AllIdle /\ nSucc >= 2 /\ backup = wPrev /\ wPrev # wLast /\ primary = wLast

\* C4: when initialize() finds a primary that exists but does not parse and a
\* backup that is a valid snapshot, the in-memory record set is exactly the
\* backup's record set.
C4_RecoversFromBackup ==
  (lastOp.op = "initialize" /\ primary.kind = "torn" /\ backup.kind = "snap")
    => MapValues(snippets) = backup.recs

C4_Witness ==
  /\ lastOp.op = "initialize" /\ primary.kind = "torn" /\ backup.kind = "snap"
  /\ backup.recs # {}
  /\ MapValues(snippets) = backup.recs

\* C5: when the process crashes inside a single mutating call and initialize()
\* then runs on the files left on disk, the loaded record set is the record
\* set before that call or the one after it.  (Stated for calls that started
\* with memory and disk in agreement.)
C5_CrashAtomic ==
  (lastOp.op = "initialize" /\ crashInfo.one /\ crashInfo.diskOK)
    => snippets \in {crashInfo.pre, crashInfo.post}

\* C6: whenever no call is in flight, a backup that exists is a complete
\* valid snapshot, never a partially written file or a copy of a corrupted
\* primary.
C6_BackupAlwaysValid ==
  (phase = "up" /\ AllIdle /\ existsSync(backup)) => backup.kind = "snap"

\* C7: once two overlapping mutating calls have both completed, the primary
\* snapshot holds the effect of both and equals the in-memory record set.
C7_NoLostUpdate ==
  (phase = "up" /\ AllIdle /\ nSucc >= 1) => primary = Serialize(snippets)

\* C12: when the backup copy or the snapshot write fails inside a mutating
\* call, the call fails with the storage error and the in-memory record set
\* is the one from before the call.
C12_FailedWriteChangesNothing ==
  [][\A c \in Callers :
       (~Idle(c) /\ pc'[c] = "idle" /\ lastOp'.result = "StorageIOError")
         => snippets' = inflight[c].pre]_vars

C21_RejectedFileChangesNothing ==
  [][\A c \in {d \in Callers : Idle(d) /\ lastOp'.op = "importSnippets"} :
     \A file \in RejectedFiles, clearExisting \in BOOLEAN :
       StorageImportFile(c, file, clearExisting) =>
         /\ lastOp'.result \in {"FileTooLarge", "InvalidJSON"}
         /\ Idle(c)'
         /\ UNCHANGED <<snippets, primary, backup>>]_vars

C21_Witness ==
  /\ lastOp.op = "importSnippets"
  /\ lastOp.result \in {"FileTooLarge", "InvalidJSON"}
  /\ snippets # EmptyMap
  /\ primary = Serialize(snippets)

\* C22: an importSnippets with at least one element that passes validation
\* does not fail because of the elements that do not pass; it leaves in the
\* store one record for every element that passed, equal to the element but
\* for id, createdAt and updatedAt, and no record for an element that did
\* not; with clearExisting false every record held before is still there
\* unchanged, with clearExisting true none of them is; and when the write
\* has completed the call returns with that record set in memory.
C22_ImportKeepsAccepted ==
  [][/\ \A c \in {d \in Callers : Idle(d) /\ inflight'[d].op = "importSnippets"} :
        \A src \in ImportSources, clearExisting \in BOOLEAN :
          (NumValid(src) >= 1 /\ StorageImportSnippets(c, src, clearExisting)) =>
            LET kept == IF clearExisting THEN {} ELSE DOMAIN snippets
                new  == (DOMAIN snippets') \ kept
                Content(r) == [r EXCEPT !.id = 0, !.createdAt = 0, !.updatedAt = 0]
            IN /\ lastOp'.result = "pending"
               /\ kept \subseteq DOMAIN snippets'
               /\ \A id \in kept : snippets'[id] = snippets[id]
               /\ new \cap DOMAIN snippets = {}
               /\ Cardinality(new) = NumValid(src)
               /\ \A id \in new :
                    \E i \in DOMAIN src :
                      validateSnippet(src[i]) /\ Content(snippets'[id]) = Content(src[i])
     /\ \A c \in {d \in Callers : inflight[d].op = "importSnippets"} :
          WriteFileDone(c) =>
            (lastOp'.result = "ok" /\ snippets' = inflight[c].post
               /\ primary' = Serialize(inflight[c].post))]_vars

\* C23: an importSnippets that accepts k >= 1 elements rotates the backup
\* once and rewrites the snapshot once, whatever k is: when it starts the
\* snapshot is the one the last completed save wrote (or is absent), between
\* its start and its return the backup changes only by one copy and the
\* primary only by one write, and when it returns the backup is the snapshot
\* as it was before the import, the snapshot holds the whole record set after
\* the import, and one more save has completed.
C23_ImportOneRotation ==
  [][/\ \A c \in {d \in Callers : Idle(d) /\ inflight'[d].op = "importSnippets"} :
          primary = (IF nSucc = 0 THEN Absent ELSE wLast)
     /\ \A c \in {d \in Callers : inflight[d].op = "importSnippets"} :
          /\ backup' # backup => (CopyFileStart(c) \/ CopyFileDone(c))
          /\ primary' # primary => (WriteFileStart(c) \/ WriteFileDone(c))
          /\ WriteFileDone(c) =>
               /\ backup' = (IF nSucc = 0 THEN Absent ELSE wLast)
               /\ primary' = Serialize(snippets')
               /\ snippets' = inflight[c].post
               /\ nSucc' = nSucc + 1]_vars

C23_Witness ==
  /\ lastOp = [op |-> "importSnippets", result |-> "ok"]
  /\ backup.kind = "snap" /\ backup = wPrev
  /\ primary = Serialize(snippets)
  /\ backup.recs \subseteq primary.recs
  /\ Cardinality(primary.recs) = Cardinality(backup.recs) + 2

\* C24: updateSnippet and deleteSnippet called with an id the store does not
\* hold fail with the not-found error and leave the records in memory, the
\* snapshot and the backup as they were.
C24_AbsentIdFails ==
  [][\A c \in {d \in Callers :
                 Idle(d) /\ lastOp'.op \in {"updateSnippet", "deleteSnippet"}} :
       \A id \in Ids \ DOMAIN snippets :
         /\ \A updates \in FieldUpdates :
              StorageUpdateSnippet(c, id, updates) =>
                /\ lastOp' = [op |-> "updateSnippet", result |-> "NotFound"]
                /\ Idle(c)'
                /\ UNCHANGED <<snippets, primary, backup>>
         /\ StorageDeleteSnippet(c, id) =>
                /\ lastOp' = [op |-> "deleteSnippet", result |-> "NotFound"]
                /\ Idle(c)'
                /\ UNCHANGED <<snippets, primary, backup>>]_vars

C24_Witness ==
  /\ lastOp.op \in {"updateSnippet", "deleteSnippet"}
  /\ lastOp.result = "NotFound"
  /\ snippets # EmptyMap
  /\ primary = Serialize(snippets)
  /\ backup.kind = "snap"

\* C25: updateSnippet on an id the store holds merges: every field named in
\* the update has the supplied value afterwards, every field not named has
\* the value it had, updatedAt is the time of the call, the record has no
\* other fields, every other record is as it was, and when the call returns
\* the snapshot holds the record set so changed.
C25_UpdateMerges ==
  [][/\ \A c \in {d \in Callers : Idle(d) /\ inflight'[d].op = "updateSnippet"} :
          \A id \in DOMAIN snippets, updates \in FieldUpdates :
            StorageUpdateSnippet(c, id, updates) =>
              /\ DOMAIN snippets' = DOMAIN snippets
              /\ DOMAIN snippets'[id] = DOMAIN snippets[id]
              /\ \A f \in (DOMAIN updates) \ {"updatedAt"} :
                   snippets'[id][f] = updates[f]
              /\ \A f \in (DOMAIN snippets[id]) \ ((DOMAIN updates) \cup {"updatedAt"}) :
                   snippets'[id][f] = snippets[id][f]
              /\ snippets'[id].updatedAt = now
              /\ \A o \in (DOMAIN snippets) \ {id} : snippets'[o] = snippets[o]
     /\ \A c \in {d \in Callers : inflight[d].op = "updateSnippet"} :
          WriteFileDone(c) =>
            /\ lastOp' = [op |-> "updateSnippet", result |-> "ok"]
            /\ snippets' = inflight[c].post
            /\ primary' = Serialize(snippets')]_vars

C25_Witness ==
  /\ lastOp = [op |-> "updateSnippet", result |-> "ok"]
  /\ Cardinality(DOMAIN snippets) = 2
  /\ \E id \in DOMAIN snippets :
       /\ snippets[id].name = "b"
       /\ snippets[id].updatedAt > snippets[id].createdAt
       /\ \A o \in (DOMAIN snippets) \ {id} : snippets[o] = SnippetAt(o, 0)
  /\ primary = Serialize(snippets)

\* C26: incrementUsage with an id the store does not hold returns without
\* error and leaves the records in memory, the snapshot and the backup as
\* they were; with an id the store holds it adds exactly 1 to that record's
\* usageCount, sets its updatedAt to the time of the call, changes no other
\* field and no other record, and when the call returns the snapshot holds
\* the record set so changed.
C26_IncrementUsage ==
  [][/\ \A c \in {d \in Callers : Idle(d) /\ lastOp'.op = "incrementUsage"} :
          \A id \in Ids :
            StorageIncrementUsage(c, id) =>
              IF id \notin DOMAIN snippets
                THEN /\ lastOp'.result = "ok"
                     /\ Idle(c)'
                     /\ UNCHANGED <<snippets, primary, backup>>
                ELSE /\ lastOp'.result = "pending"
                     /\ DOMAIN snippets' = DOMAIN snippets
                     /\ snippets'[id] =
                          [snippets[id] EXCEPT !.usageCount = snippets[id].usageCount + 1,
                                               !.updatedAt = now]
                     /\ \A o \in (DOMAIN snippets) \ {id} : snippets'[o] = snippets[o]
     /\ \A c \in {d \in Callers : inflight[d].op = "incrementUsage"} :
          WriteFileDone(c) =>
            /\ lastOp' = [op |-> "incrementUsage", result |-> "ok"]
            /\ snippets' = inflight[c].post
            /\ primary' = Serialize(snippets')]_vars

C26_Witness ==
  /\ lastOp = [op |-> "incrementUsage", result |-> "ok"]
  /\ \E id \in DOMAIN snippets :
       /\ snippets[id].usageCount = 2
       /\ snippets[id].updatedAt > snippets[id].createdAt
  /\ primary = Serialize(snippets)
  /\ backup.kind = "snap"

\* C27: across every step of create, update, incrementUsage and import, a
\* record that is in the store before and after the step has a usageCount
\* that is not lower after it, and every record in the store has a
\* usageCount that is not negative.
C27_UsageMonotonic ==
  [][/\ \A id \in (DOMAIN snippets) \cap (DOMAIN snippets') :
          snippets'[id].usageCount >= snippets[id].usageCount
     /\ \A id \in DOMAIN snippets' : snippets'[id].usageCount >= 0]_vars

\* C28: a record that is in the store before and after a step of update or
\* incrementUsage has the createdAt it had, and every record in the store has
\* an updatedAt that is not earlier than its createdAt.
C28_CreatedAtFixed ==
  [][/\ \A id \in (DOMAIN snippets) \cap (DOMAIN snippets') :
          snippets'[id].createdAt = snippets[id].createdAt
     /\ \A id \in DOMAIN snippets' :
          snippets'[id].updatedAt >= snippets'[id].createdAt]_vars

\* C29: when initialize() finds a primary that does not load (it does not
\* read, does not parse, or fails part-way through its elements) and a backup
\* that is absent or does not load either, it completes without error and
\* the in-memory store is empty.
C29_FailedLoadStartsEmpty ==
  [][(/\ Initialize
      /\ primary.kind \in {"torn", "partial"}
      /\ backup.kind \in {"absent", "torn", "partial"})
       => (lastOp'.result = "ok" /\ snippets' = EmptyMap)]_vars

\* C30: whatever records creation has admitted to the store (at least one),
\* exportSnippets followed by importSnippets of the exported file with
\* clearExisting = true succeeds and leaves a store with as many records,
\* equal to those before but for id, createdAt and updatedAt.
C30_ExportImportRoundTrip ==
  [][\A c \in {d \in Callers : Idle(d) /\ lastOp'.op = "importSnippets"} :
       (snippets # EmptyMap /\ StorageImportExported(c)) =>
         LET Content(r) == [r EXCEPT !.id = 0, !.createdAt = 0, !.updatedAt = 0] IN
         /\ lastOp'.result = "pending"
         /\ Cardinality(DOMAIN snippets') = Cardinality(DOMAIN snippets)
         /\ {Content(r) : r \in MapValues(snippets')}
              = {Content(r) : r \in MapValues(snippets)}]_vars

C22_Witness ==
  /\ inflight[1].op = "importSnippets"
  /\ inflight[1].pre # EmptyMap
  /\ \A id \in DOMAIN inflight[1].pre :
       id \in DOMAIN snippets /\ snippets[id] = inflight[1].pre[id]
  /\ Cardinality((DOMAIN snippets) \ DOMAIN inflight[1].pre) = 1
  /\ pc[1] = "writing"

----------------------------------------------------------------------------
\* Claims about the rate limiter

\* C8: for each operation name, within one fixed 60-second window calls 1 to
\* 100 pass the limiter and call 101 and every later call fail; the first
\* call after the window rolls over passes again.
C8_RateLimit ==
  \A op \in RateOps :
    rateHist.last.op = op =>
      (rateHist.last.passed <=> rateHist.nth[op].n <= RATE_LIMIT_MAX_CALLS)

C8_Witness ==
  \E op \in RateOps :
    /\ rateHist.last.op = op
    /\ rateHist.denied[op]
    /\ rateHist.last.passed
    /\ rateHist.nth[op].n = 1

----------------------------------------------------------------------------
\* Claims about the PIN gate

\* C2: while PIN protection is enabled and the access check does not grant,
\* no Manager operation hands out stored records or changes the repository's
\* records or files.
C2_EveryOperationGated ==
  (gate.op # "none" /\ gate.enabled /\ ~gate.granted)
    => (gate.returned = {} /\ ~gate.changed)

\* C9, as claimed: once the configured number of consecutive failed attempts
\* has locked the gate, every access check that completes before the lockout
\* time has elapsed denies.
C9_DeniesUntilLockoutElapses ==
  (gate.checked /\ gate.enabled /\ gate.at < gate.until) => ~gate.granted

\* C9: the configured number of consecutive failed attempts locks the gate,
\* and an access check that starts while the gate is locked out denies
\* without showing the PIN prompt, so that no PIN, correct or not, is
\* accepted, whatever the session; a check that starts before the lockout
\* can still grant, and end the lockout, through emergency recovery.
C9_LockedOutDenies ==
  /\ (failedAttempts >= MaxAttempts) => lockedUntil # 0
  /\ (gate.checked /\ gate.enabled /\ gate.locked)
       => (~gate.granted /\ ~gate.prompted /\ lockedUntil = gate.until)

C9_Witness ==
  /\ gate.checked /\ gate.enabled /\ gate.locked
  /\ failedAttempts = MaxAttempts
  /\ gate.at < lockedUntil
  /\ ~gate.granted

\* C10: with PIN protection enabled, an access check grants without prompting
\* only when the session is verified and now - verifiedAt < 30 minutes; a
\* check on a session verified 30 minutes ago or more asks for the PIN,
\* whether or not the sweep has reset the session in between.
C10_SessionExpiry ==
  (gate.checked /\ gate.enabled) =>
    /\ (gate.granted /\ ~gate.prompted)
         => (gate.verified /\ gate.age < PIN_SESSION_DURATION)
    /\ (gate.verified /\ gate.age >= PIN_SESSION_DURATION /\ ~gate.locked)
         => gate.prompted

C10_Witness ==
  /\ gate.checked /\ gate.enabled /\ ~gate.locked
  /\ gate.op # "checkPinSessionExpiration"
  /\ gate.verified /\ gate.age = PIN_SESSION_DURATION
  /\ gate.prompted /\ ~gate.granted

\* C14: in an access check that goes to emergency recovery with the code on
\* record, a new PIN of 4 to 8 digits is stored together with a newly
\* generated emergency code, the session is verified as of now, the gate is
\* not locked out and the check grants; a new PIN of another form, or a
\* cancelled box, makes the check deny and leaves the stored PIN, the stored
\* code and the session as they were.
C14_EmergencyRecovery ==
  [][\A in \in (IF gate'.prompted THEN Dialogs(GateNow) ELSE {}) :
       ( /\ in.forgot /\ in.code = storedCode
         /\ ManagerGetAllSnippets(in) \/ ManagerCreateSnippet(in) ) =>
         IF IsPinFormat(in.newPin)
           THEN /\ gate'.granted
                /\ storedPin' = in.newPin
                /\ storedCode' \in Codes \ {storedCode}
                /\ pinEnabled' /\ lockedUntil' = 0
                /\ isPinVerified' /\ pinVerificationTime' = now
           ELSE /\ ~gate'.granted
                /\ UNCHANGED <<storedPin, storedCode, isPinVerified, pinVerificationTime>>]_vars

C14_Witness ==
  /\ gate.checked /\ gate.prompted /\ gate.granted /\ gate.recovery = "done"
  /\ storedPin = PinB /\ storedCode = CodeB
  /\ isPinVerified /\ pinVerificationTime = gate.at

\* C15: in an access check that goes to emergency recovery with a code other
\* than the one on record, the check denies, and the session (verified,
\* verifiedAt), the stored PIN and the stored emergency code are as before.
C15_WrongEmergencyCode ==
  [][\A in \in (IF gate'.prompted THEN Dialogs(GateNow) ELSE {}) :
       ( /\ in.forgot /\ in.code # NoInput /\ in.code # storedCode
         /\ ManagerGetAllSnippets(in) \/ ManagerCreateSnippet(in) ) =>
         /\ ~gate'.granted /\ gate'.prompted
         /\ UNCHANGED <<storedPin, storedCode, isPinVerified, pinVerificationTime>>]_vars

C15_Witness ==
  /\ gate.checked /\ gate.enabled /\ gate.prompted /\ ~gate.granted
  /\ gate.recovery = "refused"
  /\ gate.verified /\ gate.age >= PIN_SESSION_DURATION
  /\ isPinVerified /\ failedAttempts > 0
  /\ storedPin = PinA /\ storedCode = CodeA

\* C16: an access check made while PIN protection is off grants without
\* showing the PIN prompt, whatever the session fields are, and does not
\* touch them; an access check made while protection is on, the gate is not
\* locked out and the session is verified with now - verifiedAt < 30 minutes
\* grants without showing the PIN prompt and leaves the session as it was.
C16_GrantsWithoutPrompt ==
  (gate.checked /\ gate.op # "checkPinSessionExpiration") =>
    /\ ~gate.enabled =>
         /\ gate.granted /\ ~gate.prompted
         /\ isPinVerified = gate.verified
         /\ pinVerificationTime = gate.at - gate.age
    /\ (gate.enabled /\ ~gate.locked /\ gate.verified /\ gate.age < PIN_SESSION_DURATION) =>
         /\ gate.granted /\ ~gate.prompted
         /\ isPinVerified
         /\ pinVerificationTime = gate.at - gate.age

C16_Witness ==
  /\ gate.checked /\ gate.enabled /\ ~gate.locked
  /\ gate.verified /\ gate.age = PIN_SESSION_DURATION - 1
  /\ gate.granted /\ ~gate.prompted
  /\ pinVerificationTime = gate.at - gate.age

\* C17: in an access check that shows the PIN prompt, the PIN on record
\* makes the session verified as of now and the check grants; another PIN
\* makes the check deny unless emergency recovery is completed in the same
\* check, and a check that denies does not leave a session that is verified
\* and younger than 30 minutes; a cancelled prompt denies likewise.
C17_PromptOutcome ==
  [][\A in \in (IF gate'.prompted THEN Dialogs(GateNow) ELSE {}) :
       (ManagerGetAllSnippets(in) \/ ManagerCreateSnippet(in)) =>
         IF in.pin # NoInput /\ in.pin = storedPin
           THEN /\ gate'.granted
                /\ isPinVerified' /\ pinVerificationTime' = now
                /\ lockedUntil' = 0
           ELSE /\ gate'.granted <=>
                     (in.forgot /\ in.code = storedCode /\ IsPinFormat(in.newPin))
                /\ ~gate'.granted =>
                     /\ UNCHANGED <<isPinVerified, pinVerificationTime>>
                     /\ ~(isPinVerified' /\ now - pinVerificationTime' < PIN_SESSION_DURATION)]_vars

C17_Witness ==
  /\ gate.checked /\ gate.enabled /\ gate.prompted /\ gate.granted
  /\ gate.recovery = "none"
  /\ gate.verified /\ gate.age >= PIN_SESSION_DURATION
  /\ isPinVerified /\ pinVerificationTime = gate.at

\* C18, as claimed: a sweep tick that finds PIN protection on and a session
\* verified 30 minutes ago or more leaves the session not verified with
\* verifiedAt cleared; any other tick leaves the session as it was; no tick
\* changes the records, the snapshot or the backup.
C18_SweepLeavesSessionReset ==
  [][\A h \in (IF gate'.op = "checkPinSessionExpiration" THEN DOMAIN timers ELSE {}) :
       \A enter \in BOOLEAN : \A in \in SweepDialogs(GateNow, enter) :
         SweepTick(h, enter, in) =>
           /\ UNCHANGED <<snippets, primary, backup>>
           /\ IF pinEnabled /\ isPinVerified
                   /\ now - pinVerificationTime >= PIN_SESSION_DURATION
                THEN ~isPinVerified' /\ pinVerificationTime' = 0
                ELSE UNCHANGED <<isPinVerified, pinVerificationTime>>]_vars

\* C18: a sweep tick changes nothing unless PIN protection is on and the
\* session is verified with now - verifiedAt >= 30 minutes.  Then it resets
\* the session (verified false, verifiedAt cleared) and asks the user to
\* enter the PIN: if the user declines, the reset session and the stored PIN
\* and code are what the tick leaves; if the user accepts, the tick runs an
\* access check from the reset session, which leaves the session reset or,
\* when it grants, verified as of now.  No tick changes the records, the
\* snapshot or the backup.
C18_SweepTick ==
  [][\A h \in (IF gate'.op = "checkPinSessionExpiration" THEN DOMAIN timers ELSE {}) :
       \A enter \in BOOLEAN : \A in \in SweepDialogs(GateNow, enter) :
         SweepTick(h, enter, in) =>
           /\ UNCHANGED <<snippets, primary, backup>>
           /\ IF pinEnabled /\ isPinVerified
                   /\ now - pinVerificationTime >= PIN_SESSION_DURATION
                THEN IF enter
                       THEN \/ ~gate'.granted /\ ~isPinVerified' /\ pinVerificationTime' = 0
                            \/ gate'.granted /\ isPinVerified' /\ pinVerificationTime' = now
                       ELSE /\ ~isPinVerified' /\ pinVerificationTime' = 0
                            /\ UNCHANGED pinVars
                ELSE UNCHANGED <<pinVars, isPinVerified, pinVerificationTime>>]_vars

C18_Witness ==
  /\ gate.op = "checkPinSessionExpiration"
  /\ gate.enabled /\ gate.verified /\ gate.age >= PIN_SESSION_DURATION
  /\ gate.checked /\ gate.prompted /\ gate.granted
  /\ isPinVerified /\ pinVerificationTime = gate.at

\* C19: once dispose() has returned, and until initialize() is called again,
\* no sweep timer is active and no sweep tick fires, whatever is called.
C19_NoSweepAfterDispose ==
  gate.disposed =>
    /\ pinSessionTimer = 0
    /\ timers = EmptyMap
    /\ gate.op # "checkPinSessionExpiration"

\* C20: resetPinSession() and refreshPinProtectionState(), from any session,
\* leave the session not verified with verifiedAt cleared, so that an access
\* check made next while PIN protection is on does not grant without the PIN
\* prompt; and they leave exactly one sweep timer, due a full period from
\* now.
C20_ResetSession ==
  [][(resetPinSession \/ refreshPinProtectionState) =>
       /\ ~isPinVerified' /\ pinVerificationTime' = 0
       /\ pinEnabled' => ~Open'
       /\ pinSessionTimer' # 0
       /\ DOMAIN timers' = {pinSessionTimer'}
       /\ timers'[pinSessionTimer'] = now + SWEEP_PERIOD
       /\ UNCHANGED <<pinVars, snippets, primary, backup>>]_vars

C20_Witness ==
  /\ gate.op \in {"resetPinSession", "refreshPinProtectionState"}
  /\ gate.enabled /\ gate.verified /\ gate.age < PIN_SESSION_DURATION
  /\ gate.at > 0 /\ now = gate.at
  /\ ~isPinVerified /\ pinVerificationTime = 0
  /\ timers[pinSessionTimer] = now + SWEEP_PERIOD

----------------------------------------------------------------------------
\* Claims about the fields of the stored records

\* The Sanitizer's rules for a record: required fields, length ceilings,
\* character classes, markup rejection and the denylist.  Of the body it asks
\* what every admission path asks: not empty, within the larger ceiling.
SanitizerAccepts(r) ==
  /\ trim(r.name) # "" /\ trim(r.prefix) # "" /\ trim(r.body) # ""
  /\ length(r.name) <= 200 /\ length(r.prefix) <= 50
  /\ length(r.description) <= 1000 /\ length(r.body) <= 100000
  /\ isWord(r.prefix)
  /\ \A s \in {r.name, r.prefix, r.description} \cup r.tags : ~hasTag(s)
  /\ \A s \in {r.name, r.prefix, r.description} \cup r.tags \cup r.fileTypes :
       ~includesAny(s, dangerousPatterns)
  /\ \A tag \in r.tags : length(tag) <= 50
  /\ \A fileType \in r.fileTypes :
       length(fileType) <= 20 /\ (isWord(fileType) \/ fileType = "*")
  /\ Cardinality(r.tags) <= 50 /\ Cardinality(r.fileTypes) <= 20

\* C11: every record the store holds passes the Sanitizer's rules for all its
\* string fields, whichever path admitted or last changed it.
C11_StoredRecordsSanitized ==
  \A id \in DOMAIN snippets : SanitizerAccepts(snippets[id])


\* C31: direct creation and import accept the same fields: whenever
\* createSnippetFromSelection stores a record, validateSnippet accepts an
\* import element with the fields of the request the dialog returned, and
\* whenever importSnippets stores an element, createSnippetFromSelection
\* accepts the same fields typed into its boxes.  (No text of the vocabulary
\* lies between the ceilings that differ by path.)
C31_SamePredicateSet ==
  [][\A u \in {v \in FieldChoices :
                gate'.op \in {"createSnippetFromSelection", "importSnippets"}} :
       LET typed == Merge(GoodInput, u)
           e     == Merge(SnippetAt(SourceId, 0), u)
       IN /\ (ManagerCreateFromSelection(typed) /\ gate'.changed)
               => validateSnippet(Merge(SnippetAt(SourceId, 0), showSnippetInputDialog(typed)))
          /\ \A clearExisting \in BOOLEAN :
               (ManagerImportSnippets(<<e>>, clearExisting) /\ primary' # primary)
                 => createSnippetFromSelection(typed, generateId({})).ok]_vars


C33_SearchExact ==
  [][\A searchTerm \in {t \in SearchTerms : gate'.op = "searchSnippets"} :
       \A filters \in SearchFilters :
         ManagerSearchSnippets(NoDialog, searchTerm, filters) =>
           /\ gate'.returned =
                {s \in MapValues(snippets) :
                   /\ \/ searchTerm = ""
                      \/ \E text \in {s.name, s.prefix, s.description} \cup s.tags :
                           contains(lower(text), lower(searchTerm))
                   /\ filters.tags = {} \/ filters.tags \cap s.tags # {}
                   /\ filters.fileTypes = {} \/ filters.fileTypes \cap s.fileTypes # {}
                   /\ ~filters.favoritesOnly \/ s.isFavorite}
           /\ UNCHANGED <<snippets, primary, backup>>]_vars

C33_Witness ==
  /\ gate.op = "searchSnippets"
  /\ Cardinality(DOMAIN snippets) = 2
  /\ Cardinality(gate.returned) = 1
  /\ \E s \in gate.returned : s.isFavorite /\ s.tags = {"A"} /\ s.name = "b"
  /\ \E s \in MapValues(snippets) \ gate.returned : s.isFavorite


\* C34, as claimed: after any repository call made at time now, the
\* rate-limit map holds no entry whose window index is lower than
\* floor(now / 60 s).
C34_NoEntryOfPassedWindow ==
  [][(nCalls' # nCalls \/ rateHist'.nth # rateHist.nth) =>
       \A key \in DOMAIN rateLimitMap' : key[2] >= now \div RATE_LIMIT_WINDOW]_vars

\* C34: after any repository call made at time now, the rate-limit map holds
\* no entry whose resetTime (the time it was created plus 60 s) is earlier
\* than now, so that every entry is of the current window or of the one
\* before it; and the map changes only in the step that starts a repository
\* call (the step that counts the call), never when time passes or a file
\* operation completes.
C34_LazyPruning ==
  [][/\ (nCalls' # nCalls \/ rateHist'.nth # rateHist.nth) =>
          \A key \in DOMAIN rateLimitMap' :
            /\ rateLimitMap'[key].resetTime >= now
            /\ key[2] >= (now \div RATE_LIMIT_WINDOW) - 1
     /\ rateLimitMap' # rateLimitMap =>
          (now' = now /\ (nCalls' # nCalls \/ rateHist'.nth # rateHist.nth))]_vars

C34_Witness ==
  /\ lastOp.op \in {"getStats", "saveSnippet"}
  /\ \E key \in DOMAIN rateLimitMap : key[2] < now \div RATE_LIMIT_WINDOW
  /\ \E key \in DOMAIN rateLimitMap : key[2] = now \div RATE_LIMIT_WINDOW
  /\ \A key \in DOMAIN rateLimitMap : rateLimitMap[key].resetTime >= now


\* C35: a mutating repository call that the rate limiter denies fails with
\* the rate-limit error and starts no file operation; the records in memory,
\* the snapshot and the backup are as they were, and the counter of the
\* denied operation is RATE_LIMIT_MAX_CALLS before the call and after it.  No
\* counter ever exceeds RATE_LIMIT_MAX_CALLS.
C35_DeniedCallChangesNothing ==
  [][/\ \A operation \in {o \in MutatingOps : nCalls' # nCalls /\ lastOp'.op = o} :
          ~RatePass(operation) =>
            /\ lastOp'.result = "RateLimitExceeded"
            /\ UNCHANGED <<snippets, primary, backup, pc>>
            /\ rateLimitMap[RateKey(operation, now)].count = RATE_LIMIT_MAX_CALLS
            /\ rateLimitMap' = rateLimitMap
     /\ \A key \in DOMAIN rateLimitMap' :
          rateLimitMap'[key].count <= RATE_LIMIT_MAX_CALLS]_vars

C35_Witness ==
  /\ lastOp = [op |-> "updateSnippet", result |-> "RateLimitExceeded"]
  /\ snippets = OneRecord
  /\ primary = Serialize(snippets)
  /\ rateLimitMap[RateKey("updateSnippet", now)].count = RATE_LIMIT_MAX_CALLS
  /\ nCalls = 2


\* C36: in every reachable state of the repository each entry of the
\* in-memory map is stored under the key that is the record's own id field.
C36_KeyIsOwnId ==
  \A key \in DOMAIN snippets : snippets[key].id = key


\* C37: in every state reached by initialize(), resetPinSession(),
\* refreshPinProtectionState() and dispose() in any order, at most one
\* interval timer started by the Manager is live, and a live timer is the one
\* whose handle the Manager holds: a timer that was replaced is cancelled.
C37_OneSweepTimer ==
  /\ Cardinality(DOMAIN timers) <= 1
  /\ DOMAIN timers = IF pinSessionTimer # 0 THEN {pinSessionTimer} ELSE {}

C37_Witness ==
  /\ gate.op \in {"resetPinSession", "refreshPinProtectionState"}
  /\ ~gate.disposed
  /\ now > 0 /\ gate.at = now
  /\ DOMAIN timers = {pinSessionTimer}
  /\ timers[pinSessionTimer] = now + SWEEP_PERIOD


\* C38: an access check that shows the PIN prompt and has it cancelled or
\* left empty denies: the operation returns nothing and changes no record,
\* the service's state (the failed attempts and the lockout among it) is as
\* it was, no recovery is started, and isPinVerified and pinVerificationTime
\* are unchanged.
C38_CancelledPrompt ==
  [][\A in \in {d \in Dialogs(GateNow) : gate'.prompted /\ d.pin = NoInput} :
       (ManagerGetAllSnippets(in) \/ ManagerCreateSnippet(in)) =>
         /\ ~gate'.granted
         /\ gate'.op = "denied"
         /\ gate'.recovery = "none"
         /\ gate'.returned = {} /\ ~gate'.changed
         /\ UNCHANGED <<pinVars, isPinVerified, pinVerificationTime>>
         /\ UNCHANGED <<snippets, primary, backup>>]_vars

C38_Witness ==
  /\ gate.checked /\ gate.enabled /\ gate.prompted /\ ~gate.granted
  /\ gate.verified /\ gate.age >= PIN_SESSION_DURATION
  /\ isPinVerified /\ pinVerificationTime = gate.at - gate.age
  /\ failedAttempts = 0 /\ lockedUntil = 0

====
